---- MODULE Spec2Model ----
(***************************************************************************)
(* Model of the QualityPilot step execution engine:                        *)
(*   - the BullMQ worker processor of queue.ts (test_started, executeTest, *)
(*     test_completed / test_failed),                                      *)
(*   - executeTest of testExecutor.ts (registry, browser session, step     *)
(*     loop with the cooperative cancellation check, catch, finally),      *)
(*   - cancelTestExecution and the POST /cancel/:testId route,             *)
(*   - one call of executeStep (the click and fill strategy chains, hover, *)
(*     scroll) and of performAssertion, on a page of a few elements        *)
(*     (specification SpecStep).                                           *)
(* One action is one run-to-completion slice of the JavaScript code: the   *)
(* code between two awaits.  The outcome of each awaited browser call is   *)
(* chosen nondeterministically (it resolves, or it throws some message).   *)
(***************************************************************************)
EXTENDS Integers, Sequences, FiniteSets, TLC

\* ---------------------------------------------------------------- bounds
MaxSteps == 2

\* the executions (calls of the worker processor) and the run ids in use
Execs == {"e1", "e2"}
Ids == {"t1", "t2"}

None == "none"
NoStep == 0 - 1
NoMsg == << >>
\* err[e] while no error is being propagated
NoErr == <<"(no error)">>

\* ------------------------------------------------------------- messages
\* An error message is the sequence of its words.
CancelMsg == <<"Test", "execution", "was", "cancelled">>
UnknownError == <<"Unknown", "error">>
GenPrefix == <<"Failed", "to", "generate", "test", "steps:">>

\* messages carried by the errors the awaited calls (playwright, step
\* actions) may throw: an ordinary one, one that mentions "cancelled",
\* and the empty one
ErrMsgs == { <<"Timeout", "exceeded">>, <<"order", "cancelled", "banner">>,
             << >> }

\* String.prototype.includes on the word level
Includes(m, w) == \E k \in 1..Len(m) : m[k] = w

\* ------------------------------------------------------------ executeStep
\* bounds of the page model
MaxElems == 2
MaxText == 2
MaxCount == 2

\* program constants
ClickStrategyCount == 18
FillStrategyCount == 8
ScanLimit == 30
ListLimit == 10

\* A page element that carries text: its tag, how its text relates to the
\* click target ("exact": equal, "ci": equal up to case, "partial": contains
\* it), whether it lies in the container of the card the hint names, and
\* whether it is visible and enabled (click() succeeds on it).
Tags == {"button", "div"}
Matches == {"exact", "ci", "partial"}
Elements == [tag : Tags, match : Matches, card : BOOLEAN, act : BOOLEAN]
Pages == UNION { [1..n -> Elements] : n \in 0..MaxElems }

\* An input or textarea of the page: how it relates to the fill target (by
\* its placeholder, by its label or accessible name, or not at all) and
\* whether it is visible and editable (fill() succeeds on it).
InputMatches == {"placeholder", "label", "unrelated"}
InputElements == [tag : {"input"}, match : InputMatches, card : {FALSE},
                  act : BOOLEAN]
InputPages == UNION { [1..n -> InputElements] : n \in 0..MaxElems }

\* the shapes of target the step generator produces: plain visible text,
\* and text with pseudo-selector syntax (:contains, :has-text)
TargetKinds == {"text", "pseudo"}
\* a target or value that is absent (or the empty string)
Missing == "missing"

\* TestAction; a step may also carry an action outside it ("other")
Actions == {"navigate", "click", "fill", "select", "wait", "assert",
            "screenshot", "scroll", "hover", "keyboard"}

\* strings are sequences of characters of this alphabet: a letter, a digit
Alphabet == {"a", "2"}
Texts == UNION { [1..n -> Alphabet] : n \in 0..MaxText }

StepDefs == {"click"}
StepLists == UNION { [1..n -> StepDefs] : n \in 0..MaxSteps }

VARIABLES
  tid,        \* tid[e]: the testId of the job execution e processes
  pc,         \* pc[e]: the await execution e is suspended at
  registry,   \* activeExecutions: testId -> the handle stored (named by the
              \* execution that created the object), or None
  cancelled,  \* cancelled[e]: the cancelled field of the handle e created
  browser, context, page,   \* executeTest's locals, per execution
  steps,      \* steps[e]: the generated step list
  i,          \* i[e]: the loop index
  testStep,   \* testStep[e]: status and error of the current TestStep
  err,        \* err[e]: message of the error executeTest is unwinding with
  events,     \* events[e]: the messages execution e has had broadcast, in
              \* order (they carry testId = tid[e])
  observed,   \* observed[e]: the index at which the loop saw the flag set
  cancelAt,   \* cancelAt[e]: the step in flight when the flag was first set
  lastCancel, \* the last cancellation request served by the route
  throwable,  \* throwable[e]: the messages of the errors the awaited calls
              \* of execution e may throw
  \* --- one call of executeStep (and of performAssertion)
  stepDef,    \* the StructuredStep executed: action, target, assertion
  hint,       \* the context argument: the card the step is about
  dom,        \* the elements of the page that carry text, in document order
  pageFacts,  \* what the page answers to the queries of performAssertion
  spc,        \* the await executeStep is suspended at
  strategyIdx,        \* position of the strategy loop (1-based)
  invoked,    \* the strategies invoked so far, in order, with their outcome
  clicked,    \* the elements clicked or filled so far (index in dom, 0:
              \* another one)
  waits,      \* number of page waits executed
  lastError,  \* lastError of the strategy loop
  availableElements,  \* the inventory taken before the strategies
  closed,     \* the page has been closed
  evals,      \* number of queries performAssertion has made of the page
  stepAssertion,      \* testStep.assertion
  thrown,     \* the error executeStep threw
  stepEvent,  \* the step_completed / step_failed message of the step
  pageCalls,  \* number of other calls made of the page (goto, selectOption,
              \* keyboard.press, evaluate)
  \* --- the credentials of one run of executeTest
  variant,    \* which of the definitions of executeTest the file holds runs
  credentials,        \* testPrompt.credentials
  generatorArgs,      \* the arguments generateTestSteps was called with
  generated,  \* the steps the generator returned
  injected,   \* the steps after injectCredentials
  cpc,        \* where the run is
  cidx,       \* index of the step in execution
  wire,       \* the messages broadcast, each with the texts it contains
  \* --- one call of inspectPage
  inspector,  \* which of the two versions of inspectPage runs
  matched,      \* the elements of the page the three locators match, in
              \* document order
  padding,    \* number of further plain elements each locator matches
  allThrows,  \* the category whose locator(...).all() rejects, if any
  result,     \* result: what has been pushed for each category
  scanPc,     \* where inspectPage is
  \* --- one dashboard and the messages broadcast to it
  testExecution,      \* the state testExecution of the page
  stream      \* stream[id]: how far the messages of run id have got

stepVars == << stepDef, hint, dom, pageFacts, spc, strategyIdx, invoked,
               clicked, waits, lastError, availableElements, closed, evals,
               stepAssertion, thrown, stepEvent, pageCalls >>

credVars == << variant, credentials, generatorArgs, generated, injected,
               cpc, cidx, wire >>

scanVars == << inspector, matched, padding, allThrows, result, scanPc >>

dashVars == << testExecution, stream >>

execVars == << tid, pc, registry, cancelled, browser, context, page, steps,
               i, testStep, err, events, observed, cancelAt, lastCancel,
               throwable >>

runVars == << execVars, credVars, scanVars, dashVars >>

vars == << tid, pc, registry, cancelled, browser, context, page, steps, i,
           testStep, err, events, observed, cancelAt, lastCancel, throwable, stepVars, credVars, scanVars, dashVars >>

Ev(t, s, m) == [type |-> t, step |-> s, msg |-> m]
Log(w) == Ev("log", NoStep, <<w>>)

NoCancel == [id |-> "", found |-> FALSE, terminal |-> FALSE, threw |-> FALSE]

IsTerminalEv(ev) == ev.type \in {"test_completed", "test_failed"}
HasTerminal(evs) == \E k \in 1..Len(evs) : IsTerminalEv(evs[k])

\* ------------------------------------------------------------ the queue
\* error.message || 'Unknown error'
QueueErrorText(m) == IF m = NoMsg THEN UnknownError ELSE m

\* the worker's continuation after `await executeTest(...)`
QueueTerminal(m, threw) ==
  IF threw THEN Ev("test_failed", NoStep, QueueErrorText(m))
           ELSE Ev("test_completed", NoStep, NoMsg)

\* --------------------------------------------------- executeTest: catch
\* the outer catch block of executeTest
CatchEvents(evs, m) ==
  IF Includes(m, "cancelled")
    THEN Append(evs, Ev("test_failed", NoStep, CancelMsg))
    ELSE Append(evs, Ev("error", NoStep, m))

\* ------------------------------------------------- executeTest: finally
\* the first close the finally block awaits, given the locals
FinallyPc(p, c, b) ==
  IF p = "open" THEN "closePage"
  ELSE IF c = "open" THEN "closeContext"
  ELSE IF b = "open" THEN "closeBrowser"
  ELSE "release"

\* a finally block that leaves the entry in the map
RegistryDeleteKeeps(reg, id) == reg

\* activeExecutions.delete(testId)
RegistryDelete(reg, id) == [reg EXCEPT ![id] = None]

\* the end of the finally block and the worker's continuation: they run in
\* the same microtask drain, no request handler runs in between
Release(e, evs, m, threw) ==
  /\ registry' = RegistryDelete(registry, tid[e])
  /\ events' = [events EXCEPT ![e] = Append(evs, QueueTerminal(m, threw))]
  /\ pc' = [pc EXCEPT ![e] = "done"]

\* enter the finally block with the locals p, c, b
EnterFinally(e, evs, m, threw, p, c, b) ==
  /\ err' = [err EXCEPT ![e] = IF threw THEN m ELSE NoErr]
  /\ IF FinallyPc(p, c, b) = "release"
       THEN Release(e, evs, m, threw)
       ELSE /\ pc' = [pc EXCEPT ![e] = FinallyPc(p, c, b)]
            /\ events' = [events EXCEPT ![e] = evs]
            /\ UNCHANGED registry

\* an error with message m reaches the outer catch, which rethrows it
Throw(e, evs, m, p, c, b) ==
  EnterFinally(e, CatchEvents(evs, m), m, TRUE, p, c, b)

\* ------------------------------------------------------------- registry
\* activeExecutions.set(testId, {..., cancelled: false})
Register(reg, id, e) == [reg EXCEPT ![id] = e]

\* ------------------------------------------------------------------ Init
\* ------------------------------------------------- values of executeStep
\* a value of type string | number | undefined
Str(s) == [kind |-> "string", s |-> s, n |-> 0]
Num(n) == [kind |-> "number", s |-> << >>, n |-> n]
Absent == [kind |-> "absent", s |-> << >>, n |-> 0]

\* an Assertion object; passed is "absent", "true" or "false"
Assertion(t, x, a, p) == [type |-> t, expected |-> x, actual |-> a, passed |-> p]
NoAssertion == Assertion("none", Absent, Absent, "absent")

\* the five types performAssertion knows and one it does not
AssertionTypes == {"text", "url", "title", "element", "count", "other"}
Expecteds == { Str(s) : s \in Texts } \cup { Num(n) : n \in 0..MaxCount }
\* the assertion objects the parsed generator output may hold: passed is
\* not part of StructuredStep, but the parsed JSON is not validated
GeneratedAssertions ==
  { Assertion(t, x, Absent, p) :
      t \in AssertionTypes, x \in Expecteds, p \in {"absent", "true", "false"} }

\* the text assertions a step of any action may carry
TextAssertions == { Assertion("text", Str(s), Absent, "absent") : s \in Texts }

PageFacts == [text : Texts, count : 0..MaxCount, visible : BOOLEAN]
NoFacts == [text |-> << >>, count |-> 0, visible |-> FALSE]

\* an Error: its kind, the strategy errors its message quotes, and the
\* elements its message lists
Err(k, errors, listed) == [kind |-> k, errors |-> errors, listed |-> listed]
NoThrow == Err("none", << >>, << >>)

NoStepEvent == [type |-> "none", assertion |-> NoAssertion]

\* the error a strategy (or the wait after a click) threw; lastError = null
StrategyError(j) == [src |-> "strategy", j |-> j]
WaitError == [src |-> "wait", j |-> 0]
NoLastError == [src |-> "none", j |-> 0]

\* no step is being executed
StepIdle ==
  /\ stepDef = [action |-> "none", target |-> "text", value |-> "text",
                assertion |-> NoAssertion]
  /\ hint = None
  /\ dom = << >>
  /\ pageFacts = NoFacts
  /\ spc = "idle"
  /\ strategyIdx = 1
  /\ invoked = << >>
  /\ clicked = << >>
  /\ waits = 0
  /\ lastError = NoLastError
  /\ availableElements = << >>
  /\ closed = FALSE
  /\ evals = 0
  /\ stepAssertion = NoAssertion
  /\ thrown = NoThrow
  /\ stepEvent = NoStepEvent
  /\ pageCalls = 0

\* testPrompt.credentials is absent
NoCredentials == [present |-> FALSE, entries |-> << >>]

\* generateTestSteps has not been called
NoArguments == [called |-> FALSE, pageElements |-> FALSE,
                credentials |-> NoCredentials]

\* no run is being followed for its credentials
CredIdle ==
  /\ variant = "inspecting"
  /\ credentials = NoCredentials
  /\ generatorArgs = NoArguments
  /\ generated = << >>
  /\ injected = << >>
  /\ cpc = "idle"
  /\ cidx = 0
  /\ wire = << >>

\* what has been pushed for one category: the items of the elements of
\* matched, and the number of items of the further plain elements
NoItems == [items |-> << >>, pad |-> 0]

\* inspectPage is not running
ScanIdle ==
  /\ inspector = "pageInspector"
  /\ matched = << >>
  /\ padding = 0
  /\ allThrows = None
  /\ result = [c \in {"buttons", "links", "inputs"} |-> NoItems]
  /\ scanPc = "idle"

\* useState<TestExecution | null>(null)
NoExecution == [shown |-> FALSE, id |-> "", status |-> "", steps |-> << >>,
                screenshots |-> << >>, error |-> NoMsg]

\* no message of run id has been broadcast
NoStream == [phase |-> "none", idx |-> 0]

\* no dashboard is connected
DashIdle ==
  /\ testExecution = NoExecution
  /\ stream = [id \in Ids |-> NoStream]

InitCommon ==
  /\ registry = [id \in Ids |-> None]
  /\ cancelled = [e \in Execs |-> FALSE]
  /\ browser = [e \in Execs |-> "null"]
  /\ context = [e \in Execs |-> "null"]
  /\ page = [e \in Execs |-> "null"]
  /\ steps = [e \in Execs |-> << >>]
  /\ i = [e \in Execs |-> 0]
  /\ testStep = [e \in Execs |-> [status |-> "pending", error |-> NoMsg]]
  /\ err = [e \in Execs |-> NoErr]
  /\ events = [e \in Execs |-> << >>]
  /\ observed = [e \in Execs |-> NoStep]
  /\ cancelAt = [e \in Execs |-> NoStep]
  /\ lastCancel = NoCancel

\* one job in the queue (jobId = testId = "t1"); "t2" is an id no job has
Init ==
  /\ InitCommon
  /\ StepIdle
  /\ CredIdle
  /\ ScanIdle
  /\ DashIdle
  /\ tid = [e \in Execs |-> "t1"]
  /\ pc = [e \in Execs |-> IF e = "e1" THEN "queued" ELSE "absent"]
  /\ throwable = [e \in Execs |-> ErrMsgs]

\* ------------------------------------------------------ worker processor
\* The job is picked up: test_started is broadcast, executeTest is called
\* and runs to its first await (browserEngine.launch): it registers the
\* handle, logs, and checks the flag of the handle it reads back.
ProcessJob(e) ==
  /\ pc[e] = "queued"
  /\ LET id == tid[e]
         reg == Register(registry, id, e)
         flags == [cancelled EXCEPT ![e] = FALSE]
         evs == Append(Append(events[e], Ev("test_started", NoStep, NoMsg)),
                       Log("launching"))
         execution == reg[id]
     IN /\ cancelled' = flags
        /\ IF execution # None /\ flags[execution]
             THEN /\ registry' = RegistryDelete(reg, id)
                  /\ events' = [events EXCEPT ![e] =
                       Append(CatchEvents(evs, CancelMsg),
                              QueueTerminal(CancelMsg, TRUE))]
                  /\ pc' = [pc EXCEPT ![e] = "done"]
                  /\ err' = [err EXCEPT ![e] = CancelMsg]
             ELSE /\ registry' = reg
                  /\ events' = [events EXCEPT ![e] = evs]
                  /\ pc' = [pc EXCEPT ![e] = "launch"]
                  /\ UNCHANGED err
  /\ UNCHANGED << tid, browser, context, page, steps, i, testStep,
                  observed, cancelAt, lastCancel, throwable, stepVars, credVars, scanVars, dashVars >>

\* ---------------------------------------------- executeTest: the session
\* browser = await browserEngine.launch(...)
Launch(e) ==
  /\ pc[e] = "launch"
  /\ \/ /\ browser' = [browser EXCEPT ![e] = "open"]
        /\ pc' = [pc EXCEPT ![e] = "newContext"]
        /\ UNCHANGED << err, events, registry >>
     \/ /\ \E m \in throwable[e] :
             Throw(e, events[e], m, page[e], context[e], browser[e])
        /\ UNCHANGED browser
  /\ UNCHANGED << tid, cancelled, context, page, steps, i, testStep,
                  observed, cancelAt, lastCancel, throwable, stepVars, credVars, scanVars, dashVars >>

\* context = await browser.newContext(...)
NewContext(e) ==
  /\ pc[e] = "newContext"
  /\ \/ /\ context' = [context EXCEPT ![e] = "open"]
        /\ pc' = [pc EXCEPT ![e] = "newPage"]
        /\ UNCHANGED << err, events, registry >>
     \/ /\ \E m \in throwable[e] :
             Throw(e, events[e], m, page[e], context[e], browser[e])
        /\ UNCHANGED context
  /\ UNCHANGED << tid, cancelled, browser, page, steps, i, testStep,
                  observed, cancelAt, lastCancel, throwable, stepVars, credVars, scanVars, dashVars >>

\* page = await context.newPage(); the handle is updated; log; page.goto
NewPage(e) ==
  /\ pc[e] = "newPage"
  /\ \/ /\ page' = [page EXCEPT ![e] = "open"]
        /\ pc' = [pc EXCEPT ![e] = "goto"]
        /\ events' = [events EXCEPT ![e] = Append(@, Log("navigating"))]
        /\ UNCHANGED << err, registry >>
     \/ /\ \E m \in throwable[e] :
             Throw(e, events[e], m, page[e], context[e], browser[e])
        /\ UNCHANGED page
  /\ UNCHANGED << tid, cancelled, browser, context, steps, i, testStep,
                  observed, cancelAt, lastCancel, throwable, stepVars, credVars, scanVars, dashVars >>

\* await page.goto(url); await page.waitForTimeout(3000); log
Goto(e) ==
  /\ pc[e] = "goto"
  /\ \/ /\ pc' = [pc EXCEPT ![e] = "inspect"]
        /\ events' = [events EXCEPT ![e] = Append(@, Log("inspecting"))]
        /\ UNCHANGED << err, registry >>
     \/ \E m \in throwable[e] :
          Throw(e, events[e], m, page[e], context[e], browser[e])
  /\ UNCHANGED << tid, cancelled, browser, context, page, steps, i, testStep,
                  observed, cancelAt, lastCancel, throwable, stepVars, credVars, scanVars, dashVars >>

\* pageData = await inspectPage(page): it catches its own errors; log
InspectPage(e) ==
  /\ pc[e] = "inspect"
  /\ pc' = [pc EXCEPT ![e] = "generate"]
  /\ events' = [events EXCEPT ![e] = Append(@, Log("generating"))]
  /\ UNCHANGED << tid, registry, cancelled, browser, context, page, steps, i,
                  testStep, err, observed, cancelAt, lastCancel, throwable, stepVars, credVars, scanVars, dashVars >>

\* steps = await generateTestSteps(...); injectCredentials; log; the loop
\* is entered with i = 0
GenerateTestSteps(e) ==
  /\ pc[e] = "generate"
  /\ \/ /\ \E s \in StepLists : steps' = [steps EXCEPT ![e] = s]
        /\ i' = [i EXCEPT ![e] = 0]
        /\ pc' = [pc EXCEPT ![e] = "boundary"]
        /\ events' = [events EXCEPT ![e] = Append(@, Log("generated"))]
        /\ UNCHANGED << err, registry >>
     \/ /\ \E m \in throwable[e] :
             Throw(e, events[e], GenPrefix \o m,
                   page[e], context[e], browser[e])
        /\ UNCHANGED << steps, i >>
  /\ UNCHANGED << tid, cancelled, browser, context, page, testStep,
                  observed, cancelAt, lastCancel, throwable, stepVars, credVars, scanVars, dashVars >>

\* Boundary with `break` in place of the throw of the cancellation check
BoundaryBreak(e) ==
  /\ pc[e] = "boundary"
  /\ LET id == tid[e]
         execution == registry[id]
     IN IF i[e] < Len(steps[e])
          THEN IF execution # None /\ cancelled[execution]
                 THEN /\ observed' = [observed EXCEPT ![e] = i[e]]
                      /\ EnterFinally(e, Append(Append(events[e],
                             Log("cancelled")), Log("completed")), NoMsg,
                             FALSE, page[e], context[e], browser[e])
                      /\ UNCHANGED testStep
                 ELSE /\ testStep' = [testStep EXCEPT ![e] =
                             [status |-> "running", error |-> NoMsg]]
                      /\ events' = [events EXCEPT ![e] =
                             Append(@, Ev("step_started", i[e], NoMsg))]
                      /\ pc' = [pc EXCEPT ![e] = "executeStep"]
                      /\ UNCHANGED << err, registry, observed >>
          ELSE /\ EnterFinally(e, Append(events[e], Log("completed")), NoMsg,
                               FALSE, page[e], context[e], browser[e])
               /\ UNCHANGED << testStep, observed >>
  /\ UNCHANGED << tid, cancelled, browser, context, page, steps, i,
                  cancelAt, lastCancel, throwable, stepVars, credVars, scanVars, dashVars >>

\* Boundary that checks the flag once more after the last step
BoundaryFinalCheck(e) ==
  /\ pc[e] = "boundary"
  /\ LET id == tid[e]
         execution == registry[id]
     IN IF execution # None /\ cancelled[execution]
          THEN /\ observed' = [observed EXCEPT ![e] = i[e]]
               /\ Throw(e, Append(events[e], Log("cancelled")),
                        CancelMsg, page[e], context[e], browser[e])
               /\ UNCHANGED testStep
          ELSE IF i[e] < Len(steps[e])
                 THEN /\ testStep' = [testStep EXCEPT ![e] =
                             [status |-> "running", error |-> NoMsg]]
                      /\ events' = [events EXCEPT ![e] =
                             Append(@, Ev("step_started", i[e], NoMsg))]
                      /\ pc' = [pc EXCEPT ![e] = "executeStep"]
                      /\ UNCHANGED << err, registry, observed >>
                 ELSE /\ EnterFinally(e, Append(events[e], Log("completed")),
                                      NoMsg, FALSE, page[e], context[e],
                                      browser[e])
                      /\ UNCHANGED << testStep, observed >>
  /\ UNCHANGED << tid, cancelled, browser, context, page, steps, i,
                  cancelAt, lastCancel, throwable, stepVars, credVars, scanVars, dashVars >>

\* Boundary with the loop condition `i < steps.length - 1`
BoundaryOffByOne(e) ==
  /\ pc[e] = "boundary"
  /\ LET id == tid[e]
         execution == registry[id]
     IN IF i[e] + 1 < Len(steps[e])
          THEN IF execution # None /\ cancelled[execution]
                 THEN /\ observed' = [observed EXCEPT ![e] = i[e]]
                      /\ Throw(e, Append(events[e], Log("cancelled")),
                               CancelMsg, page[e], context[e], browser[e])
                      /\ UNCHANGED testStep
                 ELSE /\ testStep' = [testStep EXCEPT ![e] =
                             [status |-> "running", error |-> NoMsg]]
                      /\ events' = [events EXCEPT ![e] =
                             Append(@, Ev("step_started", i[e], NoMsg))]
                      /\ pc' = [pc EXCEPT ![e] = "executeStep"]
                      /\ UNCHANGED << err, registry, observed >>
          ELSE /\ EnterFinally(e, Append(events[e], Log("completed")), NoMsg,
                               FALSE, page[e], context[e], browser[e])
               /\ UNCHANGED << testStep, observed >>
  /\ UNCHANGED << tid, cancelled, browser, context, page, steps, i,
                  cancelAt, lastCancel, throwable, stepVars, credVars, scanVars, dashVars >>

\* ------------------------------------------------- executeTest: the loop
\* The loop head `i < steps.length`, the cancellation check, the creation
\* of testStep and step_started, up to `await executeStep(...)`; or, past
\* the last step, the final log and the finally block.
Boundary(e) ==
  /\ pc[e] = "boundary"
  /\ LET id == tid[e]
         execution == registry[id]
     IN IF i[e] < Len(steps[e])
          THEN IF execution # None /\ cancelled[execution]
                 THEN /\ observed' = [observed EXCEPT ![e] = i[e]]
                      /\ Throw(e, Append(events[e], Log("cancelled")),
                               CancelMsg, page[e], context[e], browser[e])
                      /\ UNCHANGED testStep
                 ELSE /\ testStep' = [testStep EXCEPT ![e] =
                             [status |-> "running", error |-> NoMsg]]
                      /\ events' = [events EXCEPT ![e] =
                             Append(@, Ev("step_started", i[e], NoMsg))]
                      /\ pc' = [pc EXCEPT ![e] = "executeStep"]
                      /\ UNCHANGED << err, registry, observed >>
          ELSE /\ EnterFinally(e, Append(events[e], Log("completed")), NoMsg,
                               FALSE, page[e], context[e], browser[e])
               /\ UNCHANGED << testStep, observed >>
  /\ UNCHANGED << tid, cancelled, browser, context, page, steps, i,
                  cancelAt, lastCancel, throwable, stepVars, credVars, scanVars, dashVars >>

\* the inner catch block up to `await page.screenshot` (on error)
StepCatch(e, m) ==
  /\ testStep' = [testStep EXCEPT ![e] = [status |-> "failed", error |-> m]]
  /\ events' = [events EXCEPT ![e] = Append(@, Ev("step_failed", i[e], m))]
  /\ pc' = [pc EXCEPT ![e] = "errorScreenshot"]

\* ExecuteStep that polls the flag during the action and abandons the step
ExecuteStepPreempt(e) ==
  /\ pc[e] = "executeStep"
  /\ IF registry[tid[e]] # None /\ cancelled[registry[tid[e]]]
       THEN /\ Throw(e, events[e], CancelMsg,
                     page[e], context[e], browser[e])
            /\ UNCHANGED testStep
       ELSE /\ \/ /\ testStep' = [testStep EXCEPT ![e].status = "completed"]
                  /\ pc' = [pc EXCEPT ![e] = "screenshot"]
                  /\ UNCHANGED events
               \/ \E m \in throwable[e] : StepCatch(e, m)
            /\ UNCHANGED << err, registry >>
  /\ UNCHANGED << tid, cancelled, browser, context, page, steps, i,
                  observed, cancelAt, lastCancel, throwable, stepVars, credVars, scanVars, dashVars >>

\* ExecuteStep with the `await` left out: the loop goes on to the next step
\* while the step is still running
ExecuteStepNotAwaited(e) ==
  /\ pc[e] = "executeStep"
  /\ \/ /\ i' = [i EXCEPT ![e] = @ + 1]
        /\ pc' = [pc EXCEPT ![e] = "boundary"]
        /\ UNCHANGED << events, testStep >>
     \/ /\ \E m \in throwable[e] : StepCatch(e, m)
        /\ UNCHANGED i
  /\ UNCHANGED << tid, registry, cancelled, browser, context, page, steps,
                  err, observed, cancelAt, lastCancel, throwable, stepVars, credVars, scanVars, dashVars >>

\* await executeStep(page, stepDef, testStep, currentContext)
ExecuteStep(e) ==
  /\ pc[e] = "executeStep"
  /\ \/ /\ testStep' = [testStep EXCEPT ![e].status = "completed"]
        /\ pc' = [pc EXCEPT ![e] = "screenshot"]
        /\ UNCHANGED events
     \/ \E m \in throwable[e] : StepCatch(e, m)
  /\ UNCHANGED << tid, registry, cancelled, browser, context, page, steps, i,
                  err, observed, cancelAt, lastCancel, throwable, stepVars, credVars, scanVars, dashVars >>

\* Screenshot that broadcasts step_completed before the screenshot
ScreenshotSwapped(e) ==
  /\ pc[e] = "screenshot"
  /\ \/ /\ events' = [events EXCEPT ![e] =
               Append(Append(@, Ev("step_completed", i[e], NoMsg)),
                      Ev("screenshot", i[e], NoMsg))]
        /\ i' = [i EXCEPT ![e] = @ + 1]
        /\ pc' = [pc EXCEPT ![e] = "boundary"]
        /\ UNCHANGED testStep
     \/ /\ \E m \in throwable[e] : StepCatch(e, m)
        /\ UNCHANGED i
  /\ UNCHANGED << tid, registry, cancelled, browser, context, page, steps,
                  err, observed, cancelAt, lastCancel, throwable, stepVars, credVars, scanVars, dashVars >>

\* await page.screenshot() after the step; screenshot, step_completed, i++
Screenshot(e) ==
  /\ pc[e] = "screenshot"
  /\ \/ /\ events' = [events EXCEPT ![e] =
               Append(Append(@, Ev("screenshot", i[e], NoMsg)),
                      Ev("step_completed", i[e], NoMsg))]
        /\ i' = [i EXCEPT ![e] = @ + 1]
        /\ pc' = [pc EXCEPT ![e] = "boundary"]
        /\ UNCHANGED testStep
     \/ /\ \E m \in throwable[e] : StepCatch(e, m)
        /\ UNCHANGED i
  /\ UNCHANGED << tid, registry, cancelled, browser, context, page, steps,
                  err, observed, cancelAt, lastCancel, throwable, stepVars, credVars, scanVars, dashVars >>

\* ErrorScreenshot with the `throw error` of the inner catch left out: the
\* loop goes on to the next step
ErrorScreenshotContinue(e) ==
  /\ pc[e] = "errorScreenshot"
  /\ events' = [events EXCEPT ![e] = Append(@, Ev("screenshot", i[e], NoMsg))]
  /\ i' = [i EXCEPT ![e] = @ + 1]
  /\ pc' = [pc EXCEPT ![e] = "boundary"]
  /\ UNCHANGED << tid, registry, cancelled, browser, context, page, steps,
                  testStep, err, observed, cancelAt, lastCancel, throwable, stepVars, credVars, scanVars, dashVars >>

\* await page.screenshot() in the inner catch; screenshot; throw error
ErrorScreenshot(e) ==
  /\ pc[e] = "errorScreenshot"
  /\ \/ Throw(e, Append(events[e], Ev("screenshot", i[e], NoMsg)),
              testStep[e].error, page[e], context[e], browser[e])
     \/ \E m \in throwable[e] :
          Throw(e, events[e], m, page[e], context[e], browser[e])
  /\ UNCHANGED << tid, cancelled, browser, context, page, steps, i, testStep,
                  observed, cancelAt, lastCancel, throwable, stepVars, credVars, scanVars, dashVars >>

\* ------------------------------------------------- executeTest: finally
\* a close resolves, or rejects (the rejection is swallowed by .catch)
CloseOutcomes(e) ==
  IF throwable[e] = {} THEN {"closed"} ELSE {"closed", "closeFailed"}

\* what remains of the finally block after a close, given the locals
AfterClose(e, p, c, b) ==
  IF FinallyPc(p, c, b) = "release"
    THEN Release(e, events[e], err[e], err[e] # NoErr)
    ELSE /\ pc' = [pc EXCEPT ![e] = FinallyPc(p, c, b)]
         /\ UNCHANGED << events, registry >>

\* ClosePage without the .catch: a failing close leaves the finally block
ClosePageNoCatch(e) ==
  /\ pc[e] = "closePage"
  /\ \/ /\ page' = [page EXCEPT ![e] = "closed"]
        /\ AfterClose(e, "closed", context[e], browser[e])
     \/ /\ page' = [page EXCEPT ![e] = "closeFailed"]
        /\ events' = [events EXCEPT ![e] =
              Append(@, QueueTerminal(<<"Timeout", "exceeded">>, TRUE))]
        /\ pc' = [pc EXCEPT ![e] = "done"]
        /\ UNCHANGED registry
  /\ UNCHANGED << tid, cancelled, browser, context, steps, i, testStep, err,
                  observed, cancelAt, lastCancel, throwable, stepVars, credVars, scanVars, dashVars >>

\* if (page) await page.close().catch(() => {})
ClosePage(e) ==
  /\ pc[e] = "closePage"
  /\ \E r \in CloseOutcomes(e) :
       /\ page' = [page EXCEPT ![e] = r]
       /\ AfterClose(e, r, context[e], browser[e])
  /\ UNCHANGED << tid, cancelled, browser, context, steps, i, testStep, err,
                  observed, cancelAt, lastCancel, throwable, stepVars, credVars, scanVars, dashVars >>

\* CloseContext without the .catch: the rejection of the close leaves the
\* finally block and replaces the error executeTest ends with
CloseContextNoCatch(e) ==
  /\ pc[e] = "closeContext"
  /\ \/ /\ context' = [context EXCEPT ![e] = "closed"]
        /\ AfterClose(e, page[e], "closed", browser[e])
     \/ /\ context' = [context EXCEPT ![e] = "closeFailed"]
        /\ throwable[e] # {}
        /\ registry' = RegistryDelete(registry, tid[e])
        /\ events' = [events EXCEPT ![e] =
              Append(@, QueueTerminal(<<"context", "close", "failed">>, TRUE))]
        /\ pc' = [pc EXCEPT ![e] = "done"]
  /\ UNCHANGED << tid, cancelled, browser, page, steps, i, testStep, err,
                  observed, cancelAt, lastCancel, throwable, stepVars, credVars, scanVars, dashVars >>

\* if (context) await context.close().catch(() => {})
CloseContext(e) ==
  /\ pc[e] = "closeContext"
  /\ \E r \in CloseOutcomes(e) :
       /\ context' = [context EXCEPT ![e] = r]
       /\ AfterClose(e, page[e], r, browser[e])
  /\ UNCHANGED << tid, cancelled, browser, page, steps, i, testStep, err,
                  observed, cancelAt, lastCancel, throwable, stepVars, credVars, scanVars, dashVars >>

\* if (browser) await browser.close().catch(() => {}); delete; the worker
CloseBrowser(e) ==
  /\ pc[e] = "closeBrowser"
  /\ \E r \in CloseOutcomes(e) :
       /\ browser' = [browser EXCEPT ![e] = r]
       /\ AfterClose(e, page[e], context[e], r)
  /\ UNCHANGED << tid, cancelled, context, page, steps, i, testStep, err,
                  observed, cancelAt, lastCancel, throwable, stepVars, credVars, scanVars, dashVars >>

\* --------------------------------------------------------- cancellation
\* cancelTestExecution without the `if (execution)` guard: the assignment
\* to a field of undefined throws
cancelTestExecutionNoGuard(reg, flags, id) ==
  IF reg[id] # None
    THEN [reg |-> reg, flags |-> [flags EXCEPT ![reg[id]] = TRUE],
          threw |-> FALSE]
    ELSE [reg |-> reg, flags |-> flags, threw |-> TRUE]

\* cancelTestExecution that flags every registered execution, whatever
\* its id
cancelTestExecutionEvery(reg, flags, id) ==
  IF reg[id] # None
    THEN [reg |-> reg,
          flags |-> [e \in Execs |->
                       flags[e] \/ \E other \in Ids : reg[other] = e],
          threw |-> FALSE]
    ELSE [reg |-> reg, flags |-> flags, threw |-> FALSE]

\* cancelTestExecution(testId): the registry and the flags after the call,
\* and whether the call threw
cancelTestExecution(reg, flags, id) ==
  IF reg[id] # None
    THEN [reg |-> reg, flags |-> [flags EXCEPT ![reg[id]] = TRUE],
          threw |-> FALSE]
    ELSE [reg |-> reg, flags |-> flags, threw |-> FALSE]

InFlight(e) == pc[e] \in {"executeStep", "screenshot"}

\* a terminal event has been broadcast with testId = id
StreamTerminal(id) == \E e \in Execs : tid[e] = id /\ HasTerminal(events[e])

\* POST /cancel/:testId: cancelTestExecution, then the job is removed from
\* the queue when it is still waiting there (removed = TRUE); removing a
\* job that is being processed throws, which the route swallows.  An
\* exception of cancelTestExecution ends the route with status 500.
CancelRoute(id, removed) ==
  LET r == cancelTestExecution(registry, cancelled, id)
  IN /\ registry' = r.reg
     /\ cancelled' = r.flags
     /\ cancelAt' = [e \in Execs |->
           IF registry[id] = e /\ ~cancelled[e] /\ r.flags[e] /\ InFlight(e)
             THEN i[e] ELSE cancelAt[e]]
     /\ lastCancel' = [id |-> id, found |-> registry[id] # None,
                       terminal |-> StreamTerminal(id),
                       threw |-> r.threw]
     /\ IF removed /\ ~r.threw
          THEN \E e \in Execs :
                 /\ tid[e] = id /\ pc[e] = "queued"
                 /\ pc' = [pc EXCEPT ![e] = "removed"]
          ELSE UNCHANGED pc
     /\ UNCHANGED << tid, browser, context, page, steps, i, testStep,
                     err, events, observed, throwable, stepVars, credVars, scanVars, dashVars >>

Next ==
  \/ \E e \in Execs : ProcessJob(e)
  \/ \E e \in Execs : Launch(e)
  \/ \E e \in Execs : NewContext(e)
  \/ \E e \in Execs : NewPage(e)
  \/ \E e \in Execs : Goto(e)
  \/ \E e \in Execs : InspectPage(e)
  \/ \E e \in Execs : GenerateTestSteps(e)
  \/ \E e \in Execs : Boundary(e)
  \/ \E e \in Execs : ExecuteStep(e)
  \/ \E e \in Execs : Screenshot(e)
  \/ \E e \in Execs : ErrorScreenshot(e)
  \/ \E e \in Execs : ClosePage(e)
  \/ \E e \in Execs : CloseContext(e)
  \/ \E e \in Execs : CloseBrowser(e)
  \/ \E id \in Ids, removed \in BOOLEAN : CancelRoute(id, removed)

Spec == Init /\ [][Next]_vars

\* the same job processed twice: two executions under one testId; the
\* browser calls of the first do not fail, those of the second may
InitDup ==
  /\ InitCommon
  /\ StepIdle
  /\ CredIdle
  /\ ScanIdle
  /\ DashIdle
  /\ tid = [e \in Execs |-> "t1"]
  /\ pc = [e \in Execs |-> "queued"]
  /\ throwable = [e \in Execs |->
        IF e = "e1" THEN {} ELSE {<<"Timeout", "exceeded">>}]

SpecDup == InitDup /\ [][Next]_vars

\* ===================================================================
\* executeStep and performAssertion
\* ===================================================================
Min(a, b) == IF a < b THEN a ELSE b
Take(s, n) == SubSeq(s, 1, Min(n, Len(s)))

\* ---------------------------------------------------------------- strings
\* String.prototype.includes
Contains(t, sub) ==
  \E k \in 0..(Len(t) - Len(sub)) : SubSeq(t, k + 1, k + Len(sub)) = sub

IsDigit(c) == c \in { ToString(d) : d \in 0..9 }
DigitVal(c) == CHOOSE d \in 0..9 : ToString(d) = c

RECURSIVE DigitsOf(_)
DigitsOf(n) ==
  IF n < 10 THEN << ToString(n) >>
  ELSE Append(DigitsOf(n \div 10), ToString(n % 10))

\* String(expected)
StringOf(x) == IF x.kind = "number" THEN DigitsOf(x.n) ELSE x.s

\* Number.parseInt(s, 10): the value of the leading digits, NaN without one
RECURSIVE LeadingValue(_, _, _)
LeadingValue(s, k, acc) ==
  IF k <= Len(s) /\ IsDigit(s[k])
    THEN LeadingValue(s, k + 1, 10 * acc + DigitVal(s[k]))
    ELSE acc
ParseInt(s) ==
  IF s # << >> /\ IsDigit(s[1])
    THEN [nan |-> FALSE, n |-> LeadingValue(s, 1, 0)]
    ELSE [nan |-> TRUE, n |-> 0]

\* expectedCount of the count assertion
ExpectedCount(x) ==
  IF x.kind = "number" THEN [nan |-> FALSE, n |-> x.n] ELSE ParseInt(StringOf(x))
\* count === expectedCount
StrictEq(c, r) == ~r.nan /\ c = r.n

\* page.locator(s) accepts s: a CSS selector is not empty and does not
\* start with a digit
ValidSelector(s) == s # << >> /\ ~IsDigit(s[1])

\* ------------------------------------------------------ click strategies
\* the elements strategy j of the click chain locates, for a plain text
\* target: by role (1, 2, 12..15), by exact text (3, 8), by text up to case
\* (4, 9), by contained text (5, 10, 11), among the clickable tags (6), or
\* inside the container of the hinted card (7)
ClickLocates(j, el) ==
  CASE j \in {1, 12, 14} -> el.tag = "button"
    [] j \in {2, 13, 15} -> el.tag = "a"
    [] j \in {3, 8} -> el.match = "exact"
    [] j \in {4, 9} -> el.match \in {"exact", "ci"}
    [] j \in {5, 10, 11} -> TRUE
    [] j = 6 -> el.tag \in {"button", "a"}
    [] j = 7 -> hint # None /\ el.card
    [] OTHER -> FALSE

\* locator.first(): the first located element in document order, 0 if none
ClickFirst(j) ==
  LET ks == { k \in 1..Len(dom) : ClickLocates(j, dom[k]) }
  IN IF ks = {} THEN 0 ELSE CHOOSE k \in ks : \A m \in ks : k <= m

\* whether strategy j resolves: on a closed page nothing does; strategy 16
\* rejects a target that is not a CSS selector; 17 and 18 look at
\* attributes, which the page model leaves to the environment; the others
\* succeed iff click() succeeds on the first element located
ClickOutcomes(j) ==
  IF closed THEN {FALSE}
  ELSE IF j = 16 THEN {FALSE}
  ELSE IF j \in {17, 18} THEN BOOLEAN
  ELSE { ClickFirst(j) > 0 /\ dom[ClickFirst(j)].act }

\* the inventory of lines 709-755: the first ScanLimit clickable elements
\* with their visibility
Inventory ==
  LET idx == [k \in 1..Len(dom) |-> k]
      clickable == SelectSeq(idx, LAMBDA k : dom[k].tag \in {"button", "a"})
      scanned == Take(clickable, ScanLimit)
  IN [k \in 1..Len(scanned) |->
        [el |-> scanned[k], visible |-> dom[scanned[k]].act]]

\* availableTexts of lines 1007-1015
AvailableTexts ==
  LET vis == SelectSeq(availableElements, LAMBDA a : a.visible)
      els == [k \in 1..Len(vis) |-> vis[k].el]
  IN Take(els, ListLimit)

\* ----------------------------------------------------------- one step
\* executeTest has built testStep (547-555: assertion is copied from the
\* step definition) and calls executeStep on some page.  No run of the
\* queue is in progress.
StepFresh ==
  /\ spc = "start"
  /\ strategyIdx = 1
  /\ invoked = << >>
  /\ clicked = << >>
  /\ waits = 0
  /\ lastError = NoLastError
  /\ availableElements = << >>
  /\ closed = FALSE
  /\ evals = 0
  /\ thrown = NoThrow
  /\ stepEvent = NoStepEvent
  /\ pageCalls = 0
  /\ stepAssertion = stepDef.assertion

InitStep ==
  /\ InitCommon
  /\ tid = [e \in Execs |-> "t1"]
  /\ pc = [e \in Execs |-> "absent"]
  /\ throwable = [e \in Execs |-> {}]
  /\ \/ /\ stepDef \in [action : {"click"}, target : TargetKinds,
                        value : {"text"}, assertion : {NoAssertion}]
        /\ hint \in {None, "card"}
        /\ dom \in Pages
        /\ pageFacts = NoFacts
     \/ /\ stepDef \in [action : Actions \cup {"other"},
                        target : TargetKinds \cup {Missing},
                        value : {"text", Missing},
                        assertion : TextAssertions \cup {NoAssertion}]
        /\ hint = None
        /\ dom = << >>
        /\ pageFacts \in [text : Texts, count : {0}, visible : {FALSE}]
     \/ /\ stepDef \in [action : {"fill"}, target : {"text"},
                        value : {"text"}, assertion : {NoAssertion}]
        /\ hint = None
        /\ dom \in InputPages
        /\ pageFacts = NoFacts
     \/ /\ stepDef \in [action : {"assert"}, target : {"text"},
                        value : {"text"},
                        assertion : GeneratedAssertions \cup {NoAssertion}]
        /\ hint = None
        /\ dom = << >>
        /\ pageFacts \in PageFacts
  /\ StepFresh
  /\ CredIdle
  /\ ScanIdle
  /\ DashIdle

\* an Error thrown by executeStep before it touches the page
Reject(kind) ==
  /\ thrown' = Err(kind, << >>, << >>)
  /\ spc' = "threw"

\* case "click", lines 680-755: the target is required; a target with
\* pseudo-selector syntax is rejected; otherwise two page waits, then the
\* inventory
ClickBegin ==
  /\ spc = "start"
  /\ stepDef.action = "click"
  /\ IF stepDef.target = Missing
       THEN /\ Reject("requires")
            /\ UNCHANGED << waits, availableElements >>
       ELSE IF stepDef.target = "pseudo"
       THEN /\ Reject("invalid_selector")
            /\ UNCHANGED << waits, availableElements >>
       ELSE /\ waits' = waits + 2
            /\ availableElements' = Inventory
            /\ spc' = "chain"
            /\ UNCHANGED thrown
  /\ UNCHANGED << runVars, pageCalls, stepDef, hint, dom, pageFacts, strategyIdx,
                  invoked, clicked, lastError, closed, evals, stepAssertion,
                  stepEvent >>

\* the page changes while the chain runs: its elements get hidden
PageUpdate ==
  /\ spc = "chain"
  /\ \E k \in 1..Len(dom) : dom[k].act
  /\ dom' = [k \in 1..Len(dom) |-> [dom[k] EXCEPT !.act = FALSE]]
  /\ UNCHANGED << runVars, pageCalls, stepDef, hint, pageFacts, spc, strategyIdx,
                  invoked, clicked, waits, lastError, availableElements,
                  closed, evals, stepAssertion, thrown, stepEvent >>

\* one iteration of the loop 994-1004 up to the end of `await strategy()`
ClickStrategy ==
  /\ spc = "chain"
  /\ stepDef.action = "click"
  /\ strategyIdx <= ClickStrategyCount
  /\ \E ok \in ClickOutcomes(strategyIdx) :
       /\ invoked' = Append(invoked, [j |-> strategyIdx, ok |-> ok])
       /\ IF ok
            THEN /\ clicked' = Append(clicked, ClickFirst(strategyIdx))
                 /\ spc' = "postClick"
                 /\ UNCHANGED << lastError, strategyIdx >>
            ELSE /\ lastError' = StrategyError(strategyIdx)
                 /\ strategyIdx' = strategyIdx + 1
                 /\ UNCHANGED << clicked, spc >>
  /\ UNCHANGED << runVars, pageCalls, stepDef, hint, dom, pageFacts, waits,
                  availableElements, closed, evals, stepAssertion, thrown,
                  stepEvent >>

\* `await page.waitForTimeout(500); return;` inside the try of 995-998: the
\* wait resolves, or it rejects because the click closed the page, and the
\* catch of 999-1002 goes on to the next strategy
PostClickWait ==
  /\ spc = "postClick"
  /\ waits' = waits + 1
  /\ \/ /\ spc' = "returned"
        /\ UNCHANGED << closed, lastError, strategyIdx >>
     \/ /\ closed' = TRUE
        /\ lastError' = WaitError
        /\ strategyIdx' = strategyIdx + 1
        /\ spc' = "chain"
  /\ UNCHANGED << runVars, pageCalls, stepDef, hint, dom, pageFacts, invoked, clicked,
                  availableElements, evals, stepAssertion, thrown, stepEvent >>

\* the fill case with `if (!target)` as its check
FillBeginTargetOnly ==
  /\ spc = "start"
  /\ stepDef.action = "fill"
  /\ IF stepDef.target = Missing
       THEN Reject("requires")
       ELSE spc' = "chain" /\ UNCHANGED thrown
  /\ UNCHANGED << runVars, pageCalls, stepDef, hint, dom, pageFacts, strategyIdx,
                  invoked, clicked, waits, lastError, availableElements,
                  closed, evals, stepAssertion, stepEvent >>

\* case "fill", lines 1024-1067: target and value are required; the
\* inventory of inputs; no check of the target's syntax
FillBegin ==
  /\ spc = "start"
  /\ stepDef.action = "fill"
  /\ IF stepDef.target = Missing \/ stepDef.value = Missing
       THEN Reject("requires")
       ELSE spc' = "chain" /\ UNCHANGED thrown
  /\ UNCHANGED << runVars, pageCalls, stepDef, hint, dom, pageFacts, strategyIdx,
                  invoked, clicked, waits, lastError, availableElements,
                  closed, evals, stepAssertion, stepEvent >>

\* the inputs strategy j of fillStrategies (1069-1156) looks for:
\* 1, 2, 3 and 7 go by the placeholder, 4, 5 and 6 by the label or the
\* accessible name, 8 takes any text input
FillLocates(j, el) ==
  /\ el.tag = "input"
  /\ \/ j \in {1, 2, 3, 7} /\ el.match = "placeholder"
     \/ j \in {4, 5, 6} /\ el.match = "label"
     \/ j = FillStrategyCount

\* the element strategy j fills, 0 when it throws: the first one located
\* (.first()), which must be editable; strategy 3 goes through the inputs
\* and skips those it cannot fill
FillFirst(j) ==
  LET hits == {k \in 1..Len(dom) :
                 FillLocates(j, dom[k]) /\ (j = 3 => dom[k].act)}
  IN IF hits = {} THEN 0
     ELSE LET k == CHOOSE h \in hits : \A g \in hits : h <= g
          IN IF dom[k].act THEN k ELSE 0

\* one iteration of the loop 1158-1167: `await strategy(); return;`
FillStrategy ==
  /\ spc = "chain"
  /\ stepDef.action = "fill"
  /\ strategyIdx <= FillStrategyCount
  /\ LET k == FillFirst(strategyIdx)
     IN /\ invoked' = Append(invoked, [j |-> strategyIdx, ok |-> k > 0])
        /\ IF k > 0
             THEN /\ clicked' = Append(clicked, k)
                  /\ spc' = "returned"
                  /\ UNCHANGED << lastError, strategyIdx >>
             ELSE /\ lastError' = StrategyError(strategyIdx)
                  /\ strategyIdx' = strategyIdx + 1
                  /\ UNCHANGED << spc, clicked >>
  /\ UNCHANGED << runVars, pageCalls, stepDef, hint, dom, pageFacts, waits,
                  availableElements, closed, evals, stepAssertion, thrown,
                  stepEvent >>

\* lines 1006-1021 and 1169-1193: the loop is over; the error quotes
\* lastError.message and lists the visible elements of the inventory
ChainFail ==
  /\ spc = "chain"
  /\ strategyIdx > (IF stepDef.action = "click" THEN ClickStrategyCount
                                                ELSE FillStrategyCount)
  /\ thrown' = Err("resolution", << lastError >>, AvailableTexts)
  /\ spc' = "threw"
  /\ UNCHANGED << runVars, pageCalls, stepDef, hint, dom, pageFacts, strategyIdx,
                  invoked, clicked, waits, lastError, availableElements,
                  closed, evals, stepAssertion, stepEvent >>

\* case "hover", lines 1238-1241: the target is required; it is looked up
\* as exact text and, when that fails, as a selector; no check of its syntax
Hover ==
  /\ spc = "start"
  /\ stepDef.action = "hover"
  /\ \E first \in BOOLEAN, second \in BOOLEAN :
       IF stepDef.target = Missing
         THEN /\ Reject("requires")
              /\ UNCHANGED invoked
       ELSE IF first
         THEN /\ invoked' = << [j |-> 1, ok |-> TRUE] >>
              /\ spc' = "returned"
              /\ UNCHANGED thrown
         ELSE /\ invoked' = << [j |-> 1, ok |-> FALSE], [j |-> 2, ok |-> second] >>
              /\ spc' = IF second THEN "returned" ELSE "threw"
              /\ thrown' = IF second THEN NoThrow
                           ELSE Err("playwright", << >>, << >>)
  /\ UNCHANGED << runVars, pageCalls, stepDef, hint, dom, pageFacts, strategyIdx,
                  clicked, waits, lastError, availableElements, closed,
                  evals, stepAssertion, stepEvent >>

\* case "scroll", lines 1217-1236: a target is looked up as a selector;
\* the page is scrolled down by a viewport when that fails or when there is
\* no target; then a page wait; no check of the target
Scroll ==
  /\ spc = "start"
  /\ stepDef.action = "scroll"
  /\ IF stepDef.target = Missing
       THEN /\ pageCalls' = pageCalls + 1
            /\ UNCHANGED invoked
       ELSE \E found \in BOOLEAN :
              /\ invoked' = << [j |-> 1, ok |-> found] >>
              /\ pageCalls' = IF found THEN pageCalls ELSE pageCalls + 1
  /\ waits' = waits + 1
  /\ spc' = "returned"
  /\ UNCHANGED << runVars, stepDef, hint, dom, pageFacts, strategyIdx,
                  clicked, lastError, availableElements, closed, evals,
                  stepAssertion, thrown, stepEvent >>

\* case "navigate", lines 668-678: the target is required; goto, then two
\* page waits
Navigate ==
  /\ spc = "start"
  /\ stepDef.action = "navigate"
  /\ IF stepDef.target = Missing
       THEN /\ Reject("requires")
            /\ UNCHANGED << pageCalls, waits >>
       ELSE /\ pageCalls' = pageCalls + 1
            /\ \/ /\ waits' = waits + 2
                  /\ spc' = "returned"
                  /\ UNCHANGED thrown
               \/ /\ Reject("playwright")
                  /\ UNCHANGED waits
  /\ UNCHANGED << runVars, stepDef, hint, dom, pageFacts, strategyIdx,
                  invoked, clicked, lastError, availableElements, closed,
                  evals, stepAssertion, stepEvent >>

\* case "select", lines 1196-1200: target and value are required
Select ==
  /\ spc = "start"
  /\ stepDef.action = "select"
  /\ IF stepDef.target = Missing \/ stepDef.value = Missing
       THEN /\ Reject("requires")
            /\ UNCHANGED pageCalls
       ELSE /\ pageCalls' = pageCalls + 1
            /\ \/ spc' = "returned" /\ UNCHANGED thrown
               \/ Reject("playwright")
  /\ UNCHANGED << runVars, stepDef, hint, dom, pageFacts, strategyIdx,
                  invoked, clicked, waits, lastError, availableElements,
                  closed, evals, stepAssertion, stepEvent >>

\* case "wait", lines 1202-1206: waitForTimeout(parseInt(value || "1000"))
Wait ==
  /\ spc = "start"
  /\ stepDef.action = "wait"
  /\ waits' = waits + 1
  /\ spc' = "returned"
  /\ UNCHANGED << runVars, pageCalls, stepDef, hint, dom, pageFacts,
                  strategyIdx, invoked, clicked, lastError,
                  availableElements, closed, evals, stepAssertion, thrown,
                  stepEvent >>

\* case "screenshot", lines 1213-1215: nothing to do
ScreenshotStep ==
  /\ spc = "start"
  /\ stepDef.action = "screenshot"
  /\ spc' = "returned"
  /\ UNCHANGED << runVars, pageCalls, stepDef, hint, dom, pageFacts,
                  strategyIdx, invoked, clicked, waits, lastError,
                  availableElements, closed, evals, stepAssertion, thrown,
                  stepEvent >>

\* case "keyboard", lines 1243-1246: the value is required
Keyboard ==
  /\ spc = "start"
  /\ stepDef.action = "keyboard"
  /\ IF stepDef.value = Missing
       THEN /\ Reject("requires")
            /\ UNCHANGED pageCalls
       ELSE /\ pageCalls' = pageCalls + 1
            /\ \/ spc' = "returned" /\ UNCHANGED thrown
               \/ Reject("playwright")
  /\ UNCHANGED << runVars, stepDef, hint, dom, pageFacts, strategyIdx,
                  invoked, clicked, waits, lastError, availableElements,
                  closed, evals, stepAssertion, stepEvent >>

\* the default case, lines 1248-1249
UnknownAction ==
  /\ spc = "start"
  /\ stepDef.action \notin Actions
  /\ Reject("unknown_action")
  /\ UNCHANGED << runVars, pageCalls, stepDef, hint, dom, pageFacts,
                  strategyIdx, invoked, clicked, waits, lastError,
                  availableElements, closed, evals, stepAssertion,
                  stepEvent >>

\* ------------------------------------------------------ performAssertion
\* testStep.assertion = {...assertion, actual, passed}; throw unless passed
Verdict(actual, passed) ==
  /\ evals' = evals + 1
  /\ stepAssertion' = Assertion(stepDef.assertion.type,
                                stepDef.assertion.expected, actual,
                                IF passed THEN "true" ELSE "false")
  /\ thrown' = IF passed THEN NoThrow ELSE Err("assertion", << >>, << >>)
  /\ spc' = IF passed THEN "returned" ELSE "threw"

\* the query of the page rejects (timeout, selector syntax)
QueryThrows ==
  /\ evals' = evals + 1
  /\ thrown' = Err("playwright", << >>, << >>)
  /\ spc' = "threw"
  /\ UNCHANGED stepAssertion

\* the text assertion with equality in place of includes
PerformAssertionEquals ==
  /\ spc = "start"
  /\ stepDef.action = "assert"
  /\ LET a == stepDef.assertion
         sel == StringOf(a.expected)
     IN CASE a = NoAssertion ->
               /\ thrown' = Err("requires", << >>, << >>)
               /\ spc' = "threw"
               /\ UNCHANGED << evals, stepAssertion >>
          [] a.type = "text" ->
               \/ QueryThrows
               \/ Verdict(Str(pageFacts.text), pageFacts.text = sel)
          [] a.type = "url" ->
               Verdict(Str(pageFacts.text), Contains(pageFacts.text, sel))
          [] a.type = "title" ->
               \/ QueryThrows
               \/ Verdict(Str(pageFacts.text), Contains(pageFacts.text, sel))
          [] a.type = "element" ->
               IF ValidSelector(sel)
                 THEN Verdict(Str(<< IF pageFacts.visible THEN "visible"
                                     ELSE "not visible" >>),
                              pageFacts.visible)
                 ELSE QueryThrows
          [] a.type = "count" ->
               IF ValidSelector(sel)
                 THEN Verdict(Num(pageFacts.count),
                              StrictEq(pageFacts.count, ExpectedCount(a.expected)))
                 ELSE QueryThrows
          [] OTHER ->
               /\ spc' = "returned"
               /\ UNCHANGED << evals, stepAssertion, thrown >>
  /\ UNCHANGED << runVars, pageCalls, stepDef, hint, dom, pageFacts, strategyIdx,
                  invoked, clicked, waits, lastError, availableElements,
                  closed, stepEvent >>

\* case "assert", lines 1208-1211, and performAssertion, 1256-1352.
\* pageFacts.text is the body text, the URL or the title, whichever the
\* assertion asks for.  The switch has no default case.
PerformAssertion ==
  /\ spc = "start"
  /\ stepDef.action = "assert"
  /\ LET a == stepDef.assertion
         sel == StringOf(a.expected)
     IN CASE a = NoAssertion ->
               /\ thrown' = Err("requires", << >>, << >>)
               /\ spc' = "threw"
               /\ UNCHANGED << evals, stepAssertion >>
          [] a.type = "text" ->
               \/ QueryThrows
               \/ Verdict(Str(pageFacts.text), Contains(pageFacts.text, sel))
          [] a.type = "url" ->
               Verdict(Str(pageFacts.text), Contains(pageFacts.text, sel))
          [] a.type = "title" ->
               \/ QueryThrows
               \/ Verdict(Str(pageFacts.text), Contains(pageFacts.text, sel))
          [] a.type = "element" ->
               IF ValidSelector(sel)
                 THEN Verdict(Str(<< IF pageFacts.visible THEN "visible"
                                     ELSE "not visible" >>),
                              pageFacts.visible)
                 ELSE QueryThrows
          [] a.type = "count" ->
               IF ValidSelector(sel)
                 THEN Verdict(Num(pageFacts.count),
                              StrictEq(pageFacts.count, ExpectedCount(a.expected)))
                 ELSE QueryThrows
          [] OTHER ->
               /\ spc' = "returned"
               /\ UNCHANGED << evals, stepAssertion, thrown >>
  /\ UNCHANGED << runVars, pageCalls, stepDef, hint, dom, pageFacts, strategyIdx,
                  invoked, clicked, waits, lastError, availableElements,
                  closed, stepEvent >>

\* executeTest after executeStep, lines 582-608: step_completed or
\* step_failed, each carrying testStep
ReportStep ==
  /\ spc \in {"returned", "threw"}
  /\ stepEvent' = [type |-> IF spc = "returned" THEN "step_completed"
                            ELSE "step_failed",
                   assertion |-> stepAssertion]
  /\ spc' = "done"
  /\ UNCHANGED << runVars, pageCalls, stepDef, hint, dom, pageFacts, strategyIdx,
                  invoked, clicked, waits, lastError, availableElements,
                  closed, evals, stepAssertion, thrown >>

NextStep ==
  \/ ClickBegin
  \/ PageUpdate
  \/ ClickStrategy
  \/ PostClickWait
  \/ FillBegin
  \/ FillStrategy
  \/ ChainFail
  \/ Hover
  \/ Scroll
  \/ Navigate
  \/ Select
  \/ Wait
  \/ ScreenshotStep
  \/ Keyboard
  \/ UnknownAction
  \/ PerformAssertion
  \/ ReportStep

SpecStep == InitStep /\ [][NextStep]_vars

\* two jobs with different ids processed concurrently (the worker's
\* concurrency is 3); the browser calls of the first do not fail, those of
\* the second may
InitPair ==
  /\ InitCommon
  /\ StepIdle
  /\ CredIdle
  /\ ScanIdle
  /\ DashIdle
  /\ tid = [e \in Execs |-> IF e = "e1" THEN "t1" ELSE "t2"]
  /\ pc = [e \in Execs |-> "queued"]
  /\ throwable = [e \in Execs |->
        IF e = "e1" THEN {} ELSE {<<"Timeout", "exceeded">>}]

SpecPair == InitPair /\ [][Next]_vars

\* ===================================================================
\* inspectPage(page): the inventory of the page taken before the steps are
\* generated.  The sources hold two versions of it: pageInspector.ts, and
\* a later one ("part_003") that skips invisible elements and removes
\* duplicates.
\* ===================================================================

Inspectors == {"pageInspector", "part_003"}
Categories == {"buttons", "links", "inputs"}

\* buttons.slice(0, 50)
InspectLimit == 50

\* the order of the three loops
Order(c) == IF c = "buttons" THEN 1 ELSE IF c = "links" THEN 2
            ELSE IF c = "inputs" THEN 3 ELSE 4

\* An element a locator matches: its category, its trimmed text (for an
\* input: its label or placeholder), "" when it has none or reading it
\* failed, whether it is visible, and whether inspecting it throws
Found == [cat : Categories, text : {"", "Save"}, visible : BOOLEAN,
          throws : BOOLEAN]
FoundLists == UNION {[1..n -> Found] : n \in 0..MaxElems}

\* the further elements are plain: visible, with this text
PadText == "Save"

\* the body of the try block of one element reaches result.push
Pushes(c, el) ==
  /\ ~el.throws
  /\ inspector = "part_003" => el.visible
  /\ c # "inputs" => el.text # ""

\* the elements of matched the locator of category c matches
RECURSIVE Matching(_, _)
Matching(c, n) ==
  IF n = 0 THEN << >>
  ELSE IF matched[n].cat = c THEN Append(Matching(c, n - 1), n)
       ELSE Matching(c, n - 1)

\* one loop: the first 50 matches, each in its own try block
RECURSIVE Pushed(_, _)
Pushed(c, ix) ==
  IF ix = << >> THEN << >>
  ELSE LET k == ix[Len(ix)]
           before == Pushed(c, SubSeq(ix, 1, Len(ix) - 1))
       IN IF Pushes(c, matched[k])
            THEN Append(before, [text |-> matched[k].text, src |-> k])
            ELSE before

ScanLoop(c) ==
  LET all == Matching(c, Len(matched))
      sliced == Take(all, InspectLimit)
  IN [items |-> Pushed(c, sliced),
      pad |-> Min(padding, InspectLimit - Len(sliced))]

\* filter((v, i, a) => a.findIndex(t => t.text === v.text) === i)
RECURSIVE FirstOfEachText(_)
FirstOfEachText(s) ==
  IF s = << >> THEN << >>
  ELSE LET front == SubSeq(s, 1, Len(s) - 1)
           v == s[Len(s)]
       IN IF \E k \in 1..Len(front) : front[k].text = v.text
            THEN FirstOfEachText(front)
            ELSE Append(FirstOfEachText(front), v)

RemoveDuplicates(r) ==
  [items |-> FirstOfEachText(r.items),
   pad |-> IF r.pad > 0 /\ ~\E k \in 1..Len(r.items) : r.items[k].text = PadText
             THEN 1 ELSE 0]

InitScan ==
  /\ InitCommon
  /\ StepIdle
  /\ CredIdle
  /\ DashIdle
  /\ tid = [e \in Execs |-> "t1"]
  /\ pc = [e \in Execs |-> "absent"]
  /\ throwable = [e \in Execs |-> {}]
  /\ inspector \in Inspectors
  /\ matched \in FoundLists
  /\ padding \in {0, InspectLimit}
  /\ allThrows \in Categories \cup {None}
  /\ result = [c \in Categories |-> NoItems]
  /\ scanPc = "buttons"

\* Scan without the try block around the three loops
ScanNoCatch(c) ==
  /\ scanPc = c
  /\ IF allThrows = c
       THEN /\ scanPc' = "threw"
            /\ UNCHANGED result
       ELSE /\ result' = [result EXCEPT ![c] = ScanLoop(c)]
            /\ scanPc' = IF c = "buttons" THEN "links"
                         ELSE IF c = "links" THEN "inputs" ELSE "scanned"
  /\ UNCHANGED << execVars, stepVars, credVars, dashVars, inspector, matched, padding,
                  allThrows >>

\* await page.locator(...).all() and the loop over its first 50 elements;
\* a rejection of all() is caught by the catch after the three loops
Scan(c) ==
  /\ scanPc = c
  /\ IF allThrows = c
       THEN /\ scanPc' = "caught"
            /\ UNCHANGED result
       ELSE /\ result' = [result EXCEPT ![c] = ScanLoop(c)]
            /\ scanPc' = IF c = "buttons" THEN "links"
                         ELSE IF c = "links" THEN "inputs" ELSE "scanned"
  /\ UNCHANGED << execVars, stepVars, credVars, dashVars, inspector, matched, padding,
                  allThrows >>

\* after the try statement: part_003 removes the duplicates of buttons
\* and of links; return result
Return ==
  /\ scanPc \in {"scanned", "caught"}
  /\ result' = IF inspector = "part_003"
                 THEN [c \in Categories |->
                         IF c = "inputs" THEN result[c]
                         ELSE RemoveDuplicates(result[c])]
                 ELSE result
  /\ scanPc' = "returned"
  /\ UNCHANGED << execVars, stepVars, credVars, dashVars, inspector, matched, padding,
                  allThrows >>

NextScan ==
  \/ \E c \in Categories : Scan(c)
  \/ Return

SpecScan == InitScan /\ [][NextScan]_vars

\* ===================================================================
\* The dashboard: every message the worker broadcasts is sent to every
\* connected client (broadcastToClients), and the page handles it in
\* ws.onmessage.  Two runs with different ids are processed concurrently.
\* ===================================================================

\* a message as the worker broadcasts it: type, testId and, in data, the
\* step (id `step_${i}` and status), the screenshot or the error
WSMessage(t, id, k, st, m) ==
  [type |-> t, testId |-> id, step |-> [id |-> k, status |-> st], error |-> m]

\* ws.onmessage of the page
OnMessage(prev, message) ==
  IF message.type = "test_started"
    THEN [shown |-> TRUE, id |-> message.testId, status |-> "running",
          steps |-> << >>, screenshots |-> << >>, error |-> NoMsg]
  ELSE IF ~prev.shown THEN prev
  ELSE IF message.type = "step_started"
    THEN [prev EXCEPT !.steps = Append(@, message.step)]
  ELSE IF message.type \in {"step_completed", "step_failed"}
    THEN [prev EXCEPT !.steps =
            [k \in 1..Len(@) |->
               IF @[k].id = message.step.id THEN message.step ELSE @[k]]]
  ELSE IF message.type = "screenshot"
    THEN [prev EXCEPT !.screenshots = Append(@, message.testId)]
  ELSE IF message.type = "test_completed"
    THEN [prev EXCEPT !.status = "completed"]
  ELSE IF message.type = "test_failed"
    THEN [prev EXCEPT !.status = "failed", !.error = message.error]
  ELSE prev

InitDash ==
  /\ InitCommon
  /\ StepIdle
  /\ CredIdle
  /\ ScanIdle
  /\ tid = [e \in Execs |-> IF e = "e1" THEN "t1" ELSE "t2"]
  /\ pc = [e \in Execs |-> "absent"]
  /\ throwable = [e \in Execs |-> {}]
  /\ testExecution = NoExecution
  /\ stream = [id \in Ids |-> NoStream]

\* the worker starts to process the job of run id: test_started
TestStarted(id) ==
  /\ stream[id].phase = "none"
  /\ stream' = [stream EXCEPT ![id] = [phase |-> "boundary", idx |-> 0]]
  /\ testExecution' =
       OnMessage(testExecution, WSMessage("test_started", id, 0, "", NoMsg))
  /\ UNCHANGED << execVars, stepVars, credVars, scanVars >>

\* the loop of run id starts its next step: step_started
StepStarted(id) ==
  /\ stream[id].phase = "boundary"
  /\ stream[id].idx < MaxSteps
  /\ stream' = [stream EXCEPT ![id].phase = "step"]
  /\ testExecution' =
       OnMessage(testExecution,
                 WSMessage("step_started", id, stream[id].idx, "running", NoMsg))
  /\ UNCHANGED << execVars, stepVars, credVars, scanVars >>

\* the step of run id succeeds: screenshot, step_completed
StepCompleted(id) ==
  /\ stream[id].phase = "step"
  /\ stream' = [stream EXCEPT ![id] =
                  [phase |-> "boundary", idx |-> stream[id].idx + 1]]
  /\ testExecution' =
       OnMessage(OnMessage(testExecution,
                   WSMessage("screenshot", id, stream[id].idx, "", NoMsg)),
                 WSMessage("step_completed", id, stream[id].idx, "completed",
                           NoMsg))
  /\ UNCHANGED << execVars, stepVars, credVars, scanVars >>

\* the step of run id fails: step_failed, then the worker's test_failed
StepFailed(id) ==
  /\ stream[id].phase = "step"
  /\ stream' = [stream EXCEPT ![id].phase = "ended"]
  /\ \E m \in ErrMsgs :
       testExecution' =
         OnMessage(OnMessage(testExecution,
                     WSMessage("step_failed", id, stream[id].idx, "failed", m)),
                   WSMessage("test_failed", id, 0, "", QueueErrorText(m)))
  /\ UNCHANGED << execVars, stepVars, credVars, scanVars >>

\* executeTest of run id resolves: test_completed
TestCompleted(id) ==
  /\ stream[id].phase = "boundary"
  /\ stream' = [stream EXCEPT ![id].phase = "ended"]
  /\ testExecution' =
       OnMessage(testExecution, WSMessage("test_completed", id, 0, "", NoMsg))
  /\ UNCHANGED << execVars, stepVars, credVars, scanVars >>

NextDash ==
  \/ \E id \in Ids : TestStarted(id)
  \/ \E id \in Ids : StepStarted(id)
  \/ \E id \in Ids : StepCompleted(id)
  \/ \E id \in Ids : StepFailed(id)
  \/ \E id \in Ids : TestCompleted(id)

SpecDash == InitDash /\ [][NextDash]_vars

\* ===================================================================
\* The credentials of a run: what generateTestSteps is called with, what
\* injectCredentials substitutes, and what the messages of the run carry.
\* The file holds three definitions of executeTest: one that generates the
\* steps first ("plain"), one that opens the page and inspects it before
\* ("inspecting"), and one written for containers ("docker").
\* ===================================================================

Variants == {"plain", "inspecting", "docker"}

\* Texts are sequences of characters.  The text {{key}} is kept as one
\* character of a step value.
Keys == {"email", "password"}
Placeholder(key) == "{{" \o key \o "}}"

\* credential values: a plain one, and two with a `$` in them
Secrets == {<< "h" >>, << "p", "$", "$" >>, << "$", "&" >>}

\* the credentials of a request: absent, or an object whose entries are in
\* insertion order
Credentials ==
  {NoCredentials} \cup
  {[present |-> TRUE, entries |-> es] :
      es \in {<< >>} \cup
             {<< [key |-> k, value |-> v] >> : k \in Keys, v \in Secrets} \cup
             {<< [key |-> "email", value |-> v],
                 [key |-> "password", value |-> w] >> : v, w \in Secrets}}

\* the values of the credentials
SecretsOf(creds) == {creds.entries[k].value : k \in 1..Len(creds.entries)}

\* the value of a step the generator returns; << >> is a step without value
Values ==
  {<< >>, << "a" >>, << Placeholder("password") >>, << Placeholder("email") >>,
   << "a", Placeholder("password") >>,
   << Placeholder("password"), "a", Placeholder("password") >>}

\* the steps the generator returns
GeneratedSteps == [action : {"fill", "click"}, target : {"Password"},
                   value : Values, description : {"d"}]
GeneratedLists == UNION {[1..n -> GeneratedSteps] : n \in 0..MaxSteps}

\* the texts the steps of a list carry as value
ValuesOf(ss) == {ss[k].value : k \in 1..Len(ss)}

\* a message of the run and the texts its payload contains
Msg(t, texts) == [type |-> t, texts |-> texts]

\* what String.replace puts in place of a match m for the replacement
\* string r: $$ stands for a `$`, $& for the match
RECURSIVE Expand(_, _)
Expand(r, m) ==
  IF r = << >> THEN << >>
  ELSE IF Len(r) >= 2 /\ r[1] = "$" /\ r[2] = "$"
         THEN << "$" >> \o Expand(SubSeq(r, 3, Len(r)), m)
  ELSE IF Len(r) >= 2 /\ r[1] = "$" /\ r[2] = "&"
         THEN m \o Expand(SubSeq(r, 3, Len(r)), m)
  ELSE << r[1] >> \o Expand(Tail(r), m)

\* value.replace(new RegExp("\{\{key\}\}", "g"), r)
RECURSIVE ReplaceAll(_, _, _)
ReplaceAll(v, key, r) ==
  IF v = << >> THEN << >>
  ELSE IF v[1] = Placeholder(key)
         THEN Expand(r, << v[1] >>) \o ReplaceAll(Tail(v), key, r)
  ELSE << v[1] >> \o ReplaceAll(Tail(v), key, r)

\* Object.entries(credentials).forEach(...) on the value of one step
RECURSIVE ReplaceEntries(_, _)
ReplaceEntries(v, es) ==
  IF es = << >> THEN v
  ELSE ReplaceEntries(ReplaceAll(v, es[1].key, es[1].value), Tail(es))

injectCredentials(ss, creds) ==
  IF ~creds.present
    THEN ss
    ELSE [k \in 1..Len(ss) |->
            IF ss[k].value # << >>
              THEN [ss[k] EXCEPT !.value = ReplaceEntries(@, creds.entries)]
              ELSE ss[k]]

\* the arguments of the call of generateTestSteps after prompt and url
Arguments ==
  IF variant = "inspecting"
    THEN [called |-> TRUE, pageElements |-> TRUE, credentials |-> NoCredentials]
    ELSE [called |-> TRUE, pageElements |-> FALSE, credentials |-> credentials]

\* generateTestSteps reads pageElements.buttons.length of a third argument
\* that is given: a credentials object has no buttons
GeneratorRejects == variant # "inspecting" /\ credentials.present

\* the outer catch: an error message, then test_failed
CredCatch(w) == w \o << Msg("error", {}), Msg("test_failed", {}) >>

InitCred ==
  /\ InitCommon
  /\ StepIdle
  /\ ScanIdle
  /\ DashIdle
  /\ tid = [e \in Execs |-> "t1"]
  /\ pc = [e \in Execs |-> "absent"]
  /\ throwable = [e \in Execs |-> {}]
  /\ variant \in Variants
  /\ credentials \in Credentials
  /\ generated \in GeneratedLists
  /\ generatorArgs = NoArguments
  /\ injected = << >>
  /\ cpc = "start"
  /\ cidx = 0
  /\ wire = << >>

\* await generateTestSteps(...): the call, and its return or its throw
CallGenerator ==
  /\ cpc = "start"
  /\ generatorArgs' = Arguments
  /\ \/ /\ ~GeneratorRejects
        /\ cpc' = "generated"
        /\ wire' = wire
     \/ /\ cpc' = "done"
        /\ wire' = CredCatch(wire)
  /\ UNCHANGED << execVars, stepVars, scanVars, dashVars, variant, credentials, generated,
                  injected, cidx >>

\* steps = injectCredentials(steps, credentials), then the log message that
\* lists the steps
Inject ==
  /\ cpc = "generated"
  /\ injected' = injectCredentials(generated, credentials)
  /\ wire' = Append(wire, Msg("log", ValuesOf(injected')))
  /\ cidx' = 1
  /\ cpc' = "loop"
  /\ UNCHANGED << execVars, stepVars, scanVars, dashVars, variant, credentials, generated,
                  generatorArgs >>

\* one iteration: step_started, then step_completed, or step_failed and
\* the outer catch; each carries the TestStep, its value included
RunStep ==
  /\ cpc = "loop"
  /\ cidx <= Len(injected)
  /\ LET t == {injected[cidx].value}
         started == Append(wire, Msg("step_started", t))
     IN \/ /\ wire' = Append(started, Msg("step_completed", t))
           /\ cidx' = cidx + 1
           /\ cpc' = cpc
        \/ /\ wire' = CredCatch(Append(started, Msg("step_failed", t)))
           /\ cidx' = cidx
           /\ cpc' = "done"
  /\ UNCHANGED << execVars, stepVars, scanVars, dashVars, variant, credentials, generated,
                  generatorArgs, injected >>

\* after the loop
Complete ==
  /\ cpc = "loop"
  /\ cidx > Len(injected)
  /\ wire' = Append(wire, Msg("test_completed", {}))
  /\ cpc' = "done"
  /\ UNCHANGED << execVars, stepVars, scanVars, dashVars, variant, credentials, generated,
                  generatorArgs, injected, cidx >>

NextCred ==
  \/ CallGenerator
  \/ Inject
  \/ RunStep
  \/ Complete

SpecCred == InitCred /\ [][NextCred]_vars

\* ===================================================================
\* Properties
\* ===================================================================
Last(evs) == evs[Len(evs)]
HasEv(evs, t, s) == \E k \in 1..Len(evs) : evs[k].type = t /\ evs[k].step = s
HasType(evs, t) == \E k \in 1..Len(evs) : evs[k].type = t
CountTerminal(evs) == Cardinality({k \in 1..Len(evs) : IsTerminalEv(evs[k])})

\* C1: once a step has failed (status failed, step_failed emitted), no
\* step_started follows in the run's stream, test_completed is never
\* emitted, and the finished run's last event is test_failed.
C1_FailedStepAbortsRun ==
  \A e \in Execs :
    LET evs == events[e]
    IN /\ testStep[e].status = "failed" => HasEv(evs, "step_failed", i[e])
       /\ \A k \in 1..Len(evs) :
            evs[k].type = "step_failed" =>
              /\ \A j \in (k+1)..Len(evs) :
                    evs[j].type \notin {"step_started", "test_completed"}
              /\ pc[e] = "done" => Last(evs).type = "test_failed"

C1_Witness ==
  /\ pc["e1"] = "done"
  /\ testStep["e1"].status = "failed"
  /\ i["e1"] + 1 < Len(steps["e1"])

\* C2: every step_completed and every step_failed event of step s is
\* preceded in the stream by a screenshot event of step s.
C2_ScreenshotBeforeOutcome ==
  \A e \in Execs :
    \A k \in 1..Len(events[e]) :
      events[e][k].type \in {"step_completed", "step_failed"} =>
        \E j \in 1..(k-1) :
          /\ events[e][j].type = "screenshot"
          /\ events[e][j].step = events[e][k].step

\* C3: the stream of a run never holds more than one terminal event, and
\* the stream of a finished run holds exactly one.
C3_TerminalExactlyOnce ==
  \A e \in Execs :
    /\ CountTerminal(events[e]) <= 1
    /\ pc[e] = "done" => CountTerminal(events[e]) = 1

\* C4: once a terminal event is in the stream of a run id, no event is
\* appended to that stream.
C4_TerminalIsLast ==
  [][\A e \in Execs : HasTerminal(events[e]) => events'[e] = events[e]]_vars

\* C5: when the flag is first set while step k is in flight and step k+1
\* exists, step k+1 never starts, step k still gets its outcome event, and
\* if that outcome is step_completed the boundary before k+1 observes the
\* flag and the run ends with test_failed carrying the cancellation message.
C5_CooperativeCancel ==
  \A e \in Execs :
    LET k == cancelAt[e]
        evs == events[e]
    IN (k # NoStep /\ k + 1 < Len(steps[e])) =>
         /\ ~HasEv(evs, "step_started", k + 1)
         /\ pc[e] = "done" =>
              (HasEv(evs, "step_completed", k) \/ HasEv(evs, "step_failed", k))
         /\ (pc[e] = "done" /\ HasEv(evs, "step_completed", k)) =>
              /\ observed[e] = k + 1
              /\ Last(evs) = Ev("test_failed", NoStep, CancelMsg)

C5_Witness ==
  /\ pc["e1"] = "done"
  /\ cancelAt["e1"] = 0
  /\ Len(steps["e1"]) >= 2
  /\ HasEv(events["e1"], "step_completed", 0)

\* C6: when the loop has observed the flag at the boundary before step b,
\* no step from b on is started, test_failed with the cancellation message
\* is in the stream, test_completed is not, and the finished run's last
\* event is test_failed with the cancellation message.
C6_ObservedCancelIsReported ==
  \A e \in Execs :
    LET evs == events[e]
    IN observed[e] # NoStep =>
         /\ \A k \in 1..Len(evs) :
              evs[k].type = "step_started" => evs[k].step < observed[e]
         /\ ~HasType(evs, "test_completed")
         /\ \E k \in 1..Len(evs) : evs[k] = Ev("test_failed", NoStep, CancelMsg)
         /\ pc[e] = "done" => Last(evs) = Ev("test_failed", NoStep, CancelMsg)

C6_Witness ==
  /\ pc["e1"] = "done"
  /\ observed["e1"] = 0
  /\ Len(steps["e1"]) >= 1

\* C7: a cancellation request for an id that has no registry entry does not
\* throw, emits no event, and leaves the registry and every handle's flag
\* as they were.
C7_CancelAbsentIsNoOp ==
  [][\A id \in Ids : \A rm \in BOOLEAN :
       (registry[id] = None /\ CancelRoute(id, rm)) =>
          /\ ~lastCancel'.threw
          /\ events' = events
          /\ registry' = registry
          /\ cancelled' = cancelled]_vars

C7_Witness ==
  /\ lastCancel.id = "t2"
  /\ ~lastCancel.found
  /\ registry["t1"] = "e1"
  /\ pc["e1"] = "executeStep"

\* C8: a cancellation request served when the run's stream already holds a
\* terminal event emits nothing, and nothing is emitted for that run after
\* it.
C8_CancelAfterTerminal ==
  [][\A id \in Ids :
       (\/ lastCancel.id = id /\ lastCancel.terminal
        \/ StreamTerminal(id) /\ \E rm \in BOOLEAN : CancelRoute(id, rm))
       => \A e \in Execs : tid[e] = id => events'[e] = events[e]]_vars

\* C9: a registry entry that holds a live handle is never replaced by
\* another handle.
C9_LiveHandleNotReplaced ==
  [][\A id \in Ids :
       (registry[id] # None /\ registry'[id] # None) =>
          registry'[id] = registry[id]]_vars

\* C10: when executeTest has returned or thrown, every page, context and
\* browser it created has been asked to close (also when an earlier close
\* failed) and the registry has no entry for the run id.
C10_CleanupOnEveryExit ==
  \A e \in Execs :
    pc[e] = "done" =>
      /\ page[e] # "open"
      /\ context[e] # "open"
      /\ browser[e] # "open"
      /\ registry[tid[e]] = None

C10_Witness ==
  /\ pc["e1"] = "done"
  /\ page["e1"] = "closeFailed"
  /\ context["e1"] = "closeFailed"
  /\ browser["e1"] = "closed"
\* C11: a finished run that ended with error E has the error event (or the
\* cancellation test_failed) of E in its stream and ends with test_failed
\* carrying E (as the worker renders it), whatever the closes did; a
\* finished run that ended without an error ends with test_completed, also
\* when a close failed.
C11_CleanupNeverMasks ==
  \A e \in Execs :
    LET evs == events[e]
    IN pc[e] = "done" =>
         /\ err[e] # NoErr =>
              /\ Last(evs) = Ev("test_failed", NoStep, QueueErrorText(err[e]))
              /\ \A k \in 1..Len(evs) :
                   evs[k].type = "error" => evs[k].msg = err[e]
         /\ err[e] = NoErr => Last(evs) = Ev("test_completed", NoStep, NoMsg)

C11_Witness ==
  /\ pc["e1"] = "done"
  /\ err["e1"] = <<"Timeout", "exceeded">>
  /\ HasType(events["e1"], "step_failed")
  /\ context["e1"] = "closeFailed"
  /\ browser["e1"] = "closeFailed"
NonLog(evs) == SelectSeq(evs, LAMBDA ev : ev.type # "log")

\* the lifecycle events of a run of n steps that all succeed
SuccessStream(n) ==
  [k \in 1..(3 * n + 2) |->
     IF k = 1 THEN Ev("test_started", NoStep, NoMsg)
     ELSE IF k = 3 * n + 2 THEN Ev("test_completed", NoStep, NoMsg)
     ELSE LET s == (k - 2) \div 3
              r == (k - 2) % 3
          IN IF r = 0 THEN Ev("step_started", s, NoMsg)
             ELSE IF r = 1 THEN Ev("screenshot", s, NoMsg)
             ELSE Ev("step_completed", s, NoMsg)]

\* C19: a finished run of n steps that ended without an error has, log
\* events aside, exactly the stream test_started, then step_started(i),
\* screenshot(i), step_completed(i) for i = 0..n-1 in order, then
\* test_completed.
C19_SuccessStream ==
  \A e \in Execs :
    (pc[e] = "done" /\ err[e] = NoErr) =>
       NonLog(events[e]) = SuccessStream(Len(steps[e]))

C19_Witness ==
  /\ pc["e1"] = "done"
  /\ err["e1"] = NoErr
  /\ Len(steps["e1"]) = 2

\* C20: test_completed is in a run's stream only if step_completed was
\* emitted for every step of the step list, and never together with a
\* step_failed or error event or after the loop observed the cancellation
\* flag.
C20_CompletedOnlyIfAllSteps ==
  \A e \in Execs :
    LET evs == events[e]
    IN HasType(evs, "test_completed") =>
         /\ \A s \in 0..(Len(steps[e]) - 1) : HasEv(evs, "step_completed", s)
         /\ ~HasType(evs, "step_failed")
         /\ ~HasType(evs, "error")
         /\ ~HasType(evs, "test_failed")
         /\ observed[e] = NoStep

C20_Witness ==
  /\ HasType(events["e1"], "test_completed")
  /\ Len(steps["e1"]) = 2
  /\ cancelled["e1"]
\* ---------------------------------------------------- one step: properties
Finished == spc \in {"returned", "threw", "done"}

\* C12: in a click or fill step the k-th strategy invocation is that of
\* strategy k, and every invocation but the last one failed: strategy j is
\* invoked only after 1..j-1 were invoked and failed, and none is invoked
\* after a success.
C12_InOrderStopAtFirstSuccess ==
  stepDef.action \in {"click", "fill"} =>
    \A k \in 1..Len(invoked) :
      /\ invoked[k].j = k
      /\ k < Len(invoked) => ~invoked[k].ok

\* the visible candidates an inventory of the page as it is now would list
FreshTexts ==
  LET vis == SelectSeq(Inventory, LAMBDA a : a.visible)
  IN [k \in 1..Len(vis) |-> vis[k].el]

\* C13: when the chain of a click or fill step is exhausted the step fails
\* with a resolution error whose message names the error of every strategy
\* that was attempted and lists the candidate elements visible on the page
\* at that moment.
C13_ResolutionErrorEnumerates ==
  (/\ stepDef.action \in {"click", "fill"}
   /\ spc = "threw"
   /\ strategyIdx > (IF stepDef.action = "click" THEN ClickStrategyCount
                                                 ELSE FillStrategyCount)) =>
     /\ thrown.kind = "resolution"
     /\ { thrown.errors[k] : k \in 1..Len(thrown.errors) }
          = { StrategyError(invoked[k].j) : k \in 1..Len(invoked) }
     /\ thrown.listed = FreshTexts

\* C14: for a step whose target has pseudo-selector syntax and whose action
\* resolves a target (click, fill, hover, scroll), no strategy is ever
\* invoked and no page wait is ever executed, and the step ends with an
\* invalid-selector error.
C14_PseudoSelectorRejected ==
  (/\ stepDef.target = "pseudo"
   /\ stepDef.action \in {"click", "fill", "hover", "scroll"}) =>
     /\ invoked = << >>
     /\ waits = 0
     /\ Finished => thrown.kind = "invalid_selector"

\* C15: when a click step has a hint, the page holds several elements that
\* match the target, and one of them that can be clicked lies in the
\* container of the hinted card, the element the step clicks lies in that
\* container.
C15_ScopedDisambiguates ==
  (/\ stepDef.action = "click"
   /\ hint # None
   /\ Len(dom) >= 2
   /\ \E k \in 1..Len(dom) : dom[k].card /\ dom[k].act
   /\ clicked # << >>) =>
     \A k \in 1..Len(clicked) : clicked[k] > 0 /\ dom[clicked[k]].card

\* the number of elements the locator String(expected) matches: those the
\* page holds for a selector, none for a text that is not a selector
MatchCount ==
  IF ValidSelector(StringOf(stepDef.assertion.expected))
    THEN pageFacts.count ELSE 0

\* C16: a count assertion whose expected value is the integer n ends in
\* step_completed with passed = true iff the number of elements its locator
\* matches is exactly n, and in step_failed otherwise.
C16_CountExact ==
  (/\ stepDef.action = "assert"
   /\ stepDef.assertion.type = "count"
   /\ stepDef.assertion.expected.kind = "number"
   /\ spc = "done") =>
     IF MatchCount = stepDef.assertion.expected.n
       THEN stepEvent.type = "step_completed" /\ stepEvent.assertion.passed = "true"
       ELSE stepEvent.type = "step_failed"

\* C17: a text, url or title assertion whose query of the page answered
\* has made exactly one query; the recorded result has the observed value
\* as actual and passed = true iff that value contains the expected
\* substring; the step returns iff it passed.  No assertion queries the page
\* more than once.
C17_ContainmentVerdict ==
  /\ evals <= 1
  /\ (/\ stepDef.action = "assert"
      /\ stepDef.assertion.type \in {"text", "url", "title"}
      /\ Finished
      /\ thrown.kind # "playwright") =>
        LET c == Contains(pageFacts.text, StringOf(stepDef.assertion.expected))
        IN /\ evals = 1
           /\ stepAssertion.actual = Str(pageFacts.text)
           /\ stepAssertion.passed = (IF c THEN "true" ELSE "false")
           /\ c <=> (spc # "threw" /\ thrown = NoThrow)
           /\ spc = "done" =>
                stepEvent.type = (IF c THEN "step_completed" ELSE "step_failed")

C17_Witness ==
  /\ stepDef.assertion.type = "text"
  /\ stepDef.assertion.expected = Str(<<"2">>)
  /\ pageFacts.text = <<"a", "2">>
  /\ spc = "done"
  /\ stepEvent.type = "step_completed"
  /\ stepEvent.assertion.passed = "true"

\* C18: a step_completed or step_failed message whose assertion has a passed
\* field reports a step in which performAssertion computed a verdict, and
\* the field is that verdict.
C18_PassedIsComputed ==
  (spc = "done" /\ stepEvent.assertion.passed # "absent") =>
     /\ stepDef.action = "assert"
     /\ evals = 1
     /\ thrown.kind \in {"none", "assertion"}
     /\ stepEvent.assertion.actual # Absent
     /\ stepEvent.assertion.passed = "true" <=> thrown = NoThrow
\* C21: a finished run that failed with an error other than the
\* cancellation before any step started has that error in an error event,
\* ends with test_failed, and has no step_started event.
C21_InfrastructureFailure ==
  \A e \in Execs :
    LET evs == events[e]
    IN (/\ pc[e] = "done"
        /\ err[e] \notin {NoErr, CancelMsg}
        /\ ~HasType(evs, "step_completed")
        /\ ~HasType(evs, "step_failed")) =>
          /\ \E k \in 1..Len(evs) : evs[k] = Ev("error", NoStep, err[e])
          /\ Last(evs).type = "test_failed"
          /\ ~HasType(evs, "step_started")

\* the types of the events of evs after its last step_started, logs aside
AfterLastStart(evs) ==
  LET ks == { k \in 1..Len(evs) : evs[k].type = "step_started" }
      k0 == CHOOSE k \in ks : \A m \in ks : m <= k
      rest == NonLog(SubSeq(evs, k0 + 1, Len(evs)))
  IN [k \in 1..Len(rest) |-> rest[k].type]

\* C22: in a finished run in which a step failed, the events after the
\* step_started of that step are step_failed, screenshot and test_failed,
\* and the stream holds no error event.
C22_NoErrorEventForStepFailure ==
  \A e \in Execs :
    (pc[e] = "done" /\ HasType(events[e], "step_failed")) =>
       /\ ~HasType(events[e], "error")
       /\ AfterLastStart(events[e]) = << "step_failed", "screenshot", "test_failed" >>
\* a step that lacks a field its action requires, or whose action is not
\* a TestAction
Malformed(d) ==
  \/ d.action \in {"navigate", "click", "hover"} /\ d.target = Missing
  \/ d.action \in {"fill", "select"} /\ (d.target = Missing \/ d.value = Missing)
  \/ d.action = "keyboard" /\ d.value = Missing
  \/ d.action = "assert" /\ d.assertion = NoAssertion
  \/ d.action \notin Actions

\* nothing has been asked of the page for the step
PageUntouched ==
  /\ invoked = << >>
  /\ clicked = << >>
  /\ waits = 0
  /\ evals = 0
  /\ pageCalls = 0

\* C23: executeStep never touches the page for a malformed step; it throws
\* the missing-field or unknown-action error, and the step is reported
\* step_failed.
C23_MalformedStepIsFatal ==
  Malformed(stepDef) =>
    /\ PageUntouched
    /\ Finished => thrown.kind \in {"requires", "unknown_action"}
    /\ spc = "done" => stepEvent.type = "step_failed"

C23_Witness ==
  /\ stepDef.action = "fill"
  /\ stepDef.target # Missing
  /\ stepDef.value = Missing
  /\ spc = "done"
  /\ stepEvent.type = "step_failed"

\* C27: a step that carries a text assertion the page does not satisfy is
\* not reported step_completed, whatever its action.
C27_AssertionEvaluatedForEveryAction ==
  (/\ spc = "done"
   /\ stepDef.assertion.type = "text"
   /\ ~Contains(pageFacts.text, StringOf(stepDef.assertion.expected))) =>
     stepEvent.type # "step_completed"
\* the steps that have started and have neither completed nor failed
RunningSteps(evs) ==
  {s \in 0..MaxSteps :
     /\ \E k \in 1..Len(evs) : evs[k].type = "step_started" /\ evs[k].step = s
     /\ ~\E k \in 1..Len(evs) :
           evs[k].type \in {"step_completed", "step_failed"} /\ evs[k].step = s}

\* C26: at most one step is running at any time; the messages of the steps
\* come in step order; step_started of a step follows step_completed of the
\* step before it
C26_SequentialExecution ==
  \A e \in Execs :
    LET evs == events[e]
    IN /\ Cardinality(RunningSteps(evs)) <= 1
       /\ testStep[e].status = "running" => RunningSteps(evs) = {i[e]}
       /\ \A k, l \in 1..Len(evs) :
            (k < l /\ evs[k].step # NoStep /\ evs[l].step # NoStep) =>
               evs[k].step <= evs[l].step
       /\ \A k \in 1..Len(evs) :
            (evs[k].type = "step_started" /\ evs[k].step > 0) =>
               \E j \in 1..(k - 1) :
                  evs[j] = Ev("step_completed", evs[k].step - 1, NoMsg)

\* the second step is running after the first has completed
C26_Witness ==
  /\ pc["e1"] = "executeStep"
  /\ i["e1"] = 1
  /\ RunningSteps(events["e1"]) = {1}

\* a step of the processing of job e
Processing(e) ==
  \/ ProcessJob(e) \/ Launch(e) \/ NewContext(e) \/ NewPage(e) \/ Goto(e)
  \/ InspectPage(e) \/ GenerateTestSteps(e) \/ Boundary(e) \/ ExecuteStep(e)
  \/ Screenshot(e) \/ ErrorScreenshot(e) \/ ClosePage(e) \/ CloseContext(e)
  \/ CloseBrowser(e)

\* one run, in which every awaited call of the processing of a job
\* eventually returns or throws; cancellation requests come at any time or
\* never
SpecLive == Init /\ [][Next]_vars /\ \A e \in Execs : WF_vars(Processing(e))

\* the step leaves the session, the progress, the messages and the
\* registry entry of execution f as they are
Untouched(f) ==
  /\ browser'[f] = browser[f] /\ context'[f] = context[f]
  /\ page'[f] = page[f]
  /\ steps'[f] = steps[f] /\ i'[f] = i[f] /\ testStep'[f] = testStep[f]
  /\ pc'[f] = pc[f] /\ err'[f] = err[f] /\ events'[f] = events[f]
  /\ registry'[tid[f]] = registry[tid[f]]

\* C28: a step of one run leaves the session, the flag, the messages and
\* the outcome of a run with another id untouched, and so does a
\* cancellation request for another id; the flag of a run changes only in
\* a request for its own id
C28_ConcurrentRunsIsolated ==
  [][\A e, f \in Execs :
       /\ (tid[e] # tid[f] /\ Processing(e)) =>
             Untouched(f) /\ cancelled'[f] = cancelled[f]
       /\ \A removed \in BOOLEAN :
            (tid[e] # tid[f] /\ CancelRoute(tid[e], removed)) =>
               Untouched(f) /\ cancelled'[f] = cancelled[f]
       /\ cancelled'[f] # cancelled[f] =>
             \E removed \in BOOLEAN : CancelRoute(tid[f], removed)]_vars

\* the first run was cancelled during a step while the second was
\* running, and the second has completed
C28_Witness ==
  /\ pc["e1"] = "done" /\ pc["e2"] = "done"
  /\ err["e1"] = CancelMsg /\ cancelAt["e1"] # NoStep
  /\ ~cancelled["e2"]
  /\ Last(events["e2"]).type = "test_completed"

\* C32: a finished run holds test_failed with the cancellation message and
\* no error event only if its flag was set; a failure whose own message
\* contains "cancelled" is reported with an error event carrying that
\* message
C32_CancelOutcomeOnlyByCancellation ==
  \A e \in Execs :
    LET evs == events[e]
    IN pc[e] = "done" =>
         /\ (/\ \E k \in 1..Len(evs) :
                   evs[k] = Ev("test_failed", NoStep, CancelMsg)
             /\ ~HasType(evs, "error")) => cancelled[e]
         /\ (err[e] # CancelMsg /\ Includes(err[e], "cancelled")) =>
               \E k \in 1..Len(evs) : evs[k] = Ev("error", NoStep, err[e])

\* C33: in a finished run in which step s failed with message m, an error
\* event and the final test_failed carry m, and a screenshot event of
\* step s was emitted
C33_FailureCarriesMessageAndScreenshot ==
  \A e \in Execs :
    LET evs == events[e]
    IN pc[e] = "done" =>
         \A k \in 1..Len(evs) : evs[k].type = "step_failed" =>
            /\ \E j \in (k + 1)..Len(evs) :
                  evs[j] = Ev("error", NoStep, evs[k].msg)
            /\ Last(evs) = Ev("test_failed", NoStep, evs[k].msg)
            /\ \E j \in 1..Len(evs) :
                  evs[j].type = "screenshot" /\ evs[j].step = evs[k].step

\* C34: the status of a step that is completed never becomes failed, and
\* step_failed is emitted only when executeStep threw
C34_StatusOnlyMovesForward ==
  [][\A e \in Execs :
       /\ testStep[e].status = "completed" => testStep'[e].status # "failed"
       /\ (/\ Len(events'[e]) > Len(events[e])
           /\ \E k \in (Len(events[e]) + 1)..Len(events'[e]) :
                 events'[e][k].type = "step_failed") =>
             pc[e] = "executeStep"]_vars

\* C35: a finished run whose flag was first set while its last step was in
\* flight, and whose last step completed, ends with test_completed, holds
\* no test_failed, never observed the flag, and has released its entry with
\* the flag set; so does a run with an empty step list that reached the
\* loop with its flag set
C35_LateCancelIsNotObserved ==
  \A e \in Execs :
    LET evs == events[e]
        n == Len(steps[e])
    IN (/\ pc[e] = "done"
        /\ \/ n > 0 /\ cancelAt[e] = n - 1 /\ HasEv(evs, "step_completed", n - 1)
           \/ /\ n = 0 /\ cancelled[e]
              /\ \E k \in 1..Len(evs) : evs[k] = Log("completed")) =>
          /\ Last(evs) = Ev("test_completed", NoStep, NoMsg)
          /\ ~HasType(evs, "test_failed")
          /\ observed[e] = NoStep
          /\ cancelled[e]
          /\ registry[tid[e]] = None

\* the flag was set while the only step of the run was in flight, and the
\* step completed
C35_Witness ==
  /\ pc["e1"] = "done"
  /\ Len(steps["e1"]) = 1
  /\ cancelAt["e1"] = 0
  /\ HasEv(events["e1"], "step_completed", 0)
  /\ lastCancel.id = "t1"

\* C36: every run for which test_started was emitted eventually has a
\* terminal event in its stream and no entry in the registry
C36_EveryStartedRunFinishes ==
  \A e \in Execs :
    HasType(events[e], "test_started") ~>
      (/\ pc[e] = "done"
       /\ HasTerminal(events[e])
       /\ registry[tid[e]] = None)

\* a run has finished after a cancellation request was served while it
\* was executing a step
C36_Witness ==
  /\ pc["e1"] = "done"
  /\ HasType(events["e1"], "test_started")
  /\ cancelAt["e1"] # NoStep
  /\ registry["t1"] = None
  /\ Last(events["e1"]).type = "test_failed"

\* C37: the step in which one execution finishes leaves in the registry
\* the handle of another execution that is still running, so that the
\* handle can still be found by a cancellation request
C37_ReleaseOnlyOwnHandle ==
  [][\A e, f \in Execs :
       (/\ e # f
        /\ pc[f] # "done" /\ pc'[f] = "done"
        /\ pc[e] # "done"
        /\ registry[tid[e]] = e) => registry'[tid[e]] = e]_vars

\* C38: an assert step is reported step_completed only if an assertion of
\* one of the five types was evaluated against the page and passed
C38_AssertCompletedOnlyIfEvaluated ==
  (/\ stepDef.action = "assert"
   /\ spc = "done"
   /\ stepEvent.type = "step_completed") =>
     /\ stepDef.assertion.type \in {"text", "url", "title", "element", "count"}
     /\ evals > 0
     /\ stepEvent.assertion.passed = "true"

\* C39: a fill step is reported step_completed only if the value was
\* written into an input that matches the target; when no input of the
\* page matches, the step fails with the resolution error and nothing is
\* filled
C39_FillOnlyMatchingInput ==
  (stepDef.action = "fill" /\ spc = "done") =>
     /\ stepEvent.type = "step_completed" =>
           /\ Len(clicked) = 1
           /\ clicked[1] > 0
           /\ dom[clicked[1]].match # "unrelated"
     /\ (/\ stepDef.target # Missing /\ stepDef.value # Missing
         /\ \A k \in 1..Len(dom) : dom[k].match = "unrelated") =>
           /\ stepEvent.type = "step_failed"
           /\ thrown.kind = "resolution"
           /\ clicked = << >>

\* ---------------------------------------------------- credentials: properties

\* the message types the claim is about
Diagnostic == {"log", "error", "step_failed", "test_failed"}

\* C24: no log, error, step_failed or test_failed message of a run contains
\* a credential value that was substituted for a placeholder
C24_CredentialsNeverLogged ==
  \A k \in 1..Len(wire) :
    wire[k].type \in Diagnostic =>
      \A t \in wire[k].texts, v \in SecretsOf(credentials) : ~Contains(t, v)

\* C25: the generator is never called with a credential value, and the
\* substitution happens after it returned and before the first step
C25_GeneratorNeverSeesCredentials ==
  /\ SecretsOf(generatorArgs.credentials) = {}
  /\ injected # << >> => cpc \in {"loop", "done"} /\ generatorArgs.called
  /\ cpc \in {"start", "generated"} => injected = << >>

\* the value a step is to have after the substitution: every {{key}} of a
\* key of the credentials replaced by the value of that key
RECURSIVE Substituted(_, _)
Substituted(v, es) ==
  IF v = << >> THEN << >>
  ELSE LET hit == {k \in 1..Len(es) : Placeholder(es[k].key) = v[1]}
       IN (IF hit = {} THEN << v[1] >> ELSE es[CHOOSE k \in hit : TRUE].value)
            \o Substituted(Tail(v), es)

\* C31: injectCredentials replaces every {{key}} of every step value by
\* the credential value of the key and changes nothing else: the other
\* fields, the number and the order of the steps are kept, steps without
\* value are kept, the input is not changed, and without credentials the
\* result is the input
C31_InjectReplacesOnlyPlaceholders ==
  [][(cpc = "generated" /\ cpc' = "loop") =>
       /\ generated' = generated
       /\ Len(injected') = Len(generated)
       /\ \A k \in 1..Len(generated) :
            /\ injected'[k].action = generated[k].action
            /\ injected'[k].target = generated[k].target
            /\ injected'[k].description = generated[k].description
            /\ generated[k].value = << >> => injected'[k] = generated[k]
            /\ injected'[k].value =
                 Substituted(generated[k].value, credentials.entries)
       /\ ~credentials.present => injected' = generated]_vars

\* ---------------------------------------------------- inspectPage: properties

\* number of items of one category
Size(r) == Len(r.items) + r.pad

\* the loop of category c has run
Collected(c) == allThrows = None \/ Order(c) < Order(allThrows)

\* the text under which an item is listed: an input without label,
\* placeholder and id is listed as "input"
Listed(c, t) == IF c = "inputs" /\ t = "" THEN "input" ELSE t

\* two items of r are listed under one text
SameTextTwice(c, r) ==
  \/ \E j, k \in 1..Len(r.items) :
        j < k /\ Listed(c, r.items[j].text) = Listed(c, r.items[k].text)
  \/ r.pad > 1
  \/ r.pad = 1 /\ \E k \in 1..Len(r.items) : r.items[k].text = PadText

\* C29: inspectPage never throws; an element whose inspection throws has
\* no item and costs no other element its item; when the scan as a whole
\* fails the categories scanned before are returned and the others are
\* empty
C29_ScanNeverAborts ==
  /\ scanPc # "threw"
  /\ scanPc = "caught" => \A c \in Categories :
         Collected(c) => result[c] = ScanLoop(c)
  /\ scanPc = "returned" => \A c \in Categories :
       IF Collected(c)
         THEN \A k \in 1..Len(matched) : matched[k].cat = c =>
                /\ matched[k].throws =>
                      ~\E j \in 1..Len(result[c].items) :
                           result[c].items[j].src = k
                /\ Pushes(c, matched[k]) =>
                      \E j \in 1..Len(result[c].items) :
                           result[c].items[j].text = matched[k].text
         ELSE Size(result[c]) = 0

\* inspecting the first button threw, the second one is listed; the
\* locator of the links failed
C29_Witness ==
  /\ scanPc = "returned"
  /\ Len(matched) = 2
  /\ matched[1].cat = "buttons" /\ matched[1].throws
  /\ matched[2].cat = "buttons"
  /\ allThrows = "links"
  /\ Len(result["buttons"].items) = 1
  /\ result["buttons"].items[1].src = 2

\* C30: each category of the result has at most 50 items, and no two
\* items of a category carry the same text
C30_CappedAndDeduplicated ==
  scanPc = "returned" =>
    \A c \in Categories :
      /\ Size(result[c]) <= InspectLimit
      /\ ~SameTextTwice(c, result[c])
\* ---------------------------------------------------- dashboard: properties

\* a message of run id is handled
Delivered(id) ==
  \/ TestStarted(id) \/ StepStarted(id) \/ StepCompleted(id)
  \/ StepFailed(id) \/ TestCompleted(id)

\* C40: handling a message of a run other than the one the dashboard
\* displays leaves the state of the dashboard as it is
C40_DashboardShowsOneRun ==
  [][\A id \in Ids :
       (Delivered(id) /\ testExecution'.id # id) =>
          testExecution' = testExecution]_vars
====
